---- MODULE Spec2Model ----
(***************************************************************************)
(* SpendWise: the expense submission path (ExpenseContext.addExpense and   *)
(* POST /api/expenses), the policy tables and the expense updates of       *)
(* server.js, as a state machine over the rows of the SQLite tables.       *)
(*                                                                         *)
(* Dates.  An expense date is the text 'YYYY-MM-DD' of the date input.  A  *)
(* calendar day is numbered from 2024-02-25 (a Sunday, day 0); an instant  *)
(* is a number of minutes since 2024-02-25T00:00Z.  The seconds and        *)
(* milliseconds of an instant are not kept: the zone offsets are whole     *)
(* minutes, so they never change the calendar day of an instant.           *)
(***************************************************************************)
EXTENDS Integers, Sequences, FiniteSets

VARIABLES
    expenses,   \* the rows of table expenses, in insertion order; the id of a row is its index
    policies,   \* the rows of table policies: category -> row
    tz,         \* the zone offset of the server process, minutes east of UTC
    last,       \* the last request handled and its response
    users,      \* the rows of table users: id -> row
    session,    \* currentUser of the browser (AuthContext): NULL or the user logged in
    form,       \* fraudDetection of the AddExpense page: NULL or the result of the receipt check
    replay,     \* the outcomes of one submission decided twice on the same tables
    inflight,   \* the requests POST /api/expenses followed await by await: slot -> locals
    rates,      \* the rows of table conversion_rates dated today
    txn,        \* the transaction open on the connection: NULL, or the rows at its BEGIN
    refresh,    \* the runs of fetchAndStoreCurrencyRates and of its callers: slot -> locals
    conv,       \* convertCurrency of the browser: its arguments, its progress, its result
    views,      \* the pages of the manager: page -> the expenses it loaded and shows
    checked,    \* the fraud heuristic that ran last and the result it returned
    submission, \* handleSubmit in its retry loop: the expense, the attempts, the rows
    listing     \* the last response of GET /api/expenses/user/:userId

vars == <<expenses, policies, tz, last, users, session, form, replay, inflight,
         rates, txn, refresh, conv, views, checked, submission, listing>>

\* what the handlers of the expense and policy tables never touch
\* the rate table, the transaction of the connection, the refreshes and the
\* conversion of the browser
rateVars == <<rates, txn, refresh, conv>>

beyondTables == <<users, session, form, replay, inflight, rateVars, views, checked,
                  submission, listing>>

beyondRates == <<expenses, policies, tz, last, users, session, form, replay, inflight, views,
                 checked, submission, listing>>

---------------------------------------------------------------------------
(* Bounds of the model *)

MaxExpenses == 2

MaxRequests == 2

MaxRefreshes == 2

MaxPages == 2

---------------------------------------------------------------------------
(* Calendar: what the Date object of the runtime computes *)

MinutesPerDay == 24 * 60

\* first days of the months of 2024 around the modelled days, by JS month index
MonthStart == [m \in 0..5 |-> CASE m = 0 -> -55 [] m = 1 -> -24 [] m = 2 -> 5
                                [] m = 3 -> 36 [] m = 4 -> 66 [] m = 5 -> 97]

\* new Date('YYYY-MM-DD'): a date-only text is read as midnight UTC
ParseDate(day) == day * MinutesPerDay

\* the calendar day of an instant in the zone at offset off
LocalDay(instant, off) == (instant + off) \div MinutesPerDay

\* Date.prototype.getDay: 0 is Sunday
GetDay(instant, off) == LocalDay(instant, off) % 7

\* Date.prototype.getMonth (all modelled days are of 2024, getFullYear is constant)
MonthOfDay(day) == CHOOSE m \in 0..4 : MonthStart[m] <= day /\ day < MonthStart[m + 1]

GetMonth(instant, off) == MonthOfDay(LocalDay(instant, off))

\* new Date(y, m, d, h, mi): the instant of a wall-clock time of the zone
LocalTime(day, minute, off) == day * MinutesPerDay + minute - off

\* Date.prototype.toISOString: the UTC date and the UTC time of day of an instant;
\* the date is <<year, month, day of month>>, as the zero-padded text orders it
YMD(day) == LET m == MonthOfDay(day) IN <<2024, m + 1, day - MonthStart[m] + 1>>

ToISOString(instant) ==
    [ymd |-> YMD(instant \div MinutesPerDay), time |-> <<instant % MinutesPerDay>>]

\* the text of a date input: 'YYYY-MM-DD', with no time part
DateText(day) == [ymd |-> YMD(day), time |-> <<>>]

\* lexicographic order of two tuples of numbers of the same length
LexLess(a, b) ==
    \E i \in 1..Len(a) : a[i] < b[i] /\ \A j \in 1..(i - 1) : a[j] = b[j]

\* SQLite compares TEXT byte by byte: the dates first, and of two texts with
\* the same date the one that stops there (a proper prefix) is the smaller
TextLess(a, b) ==
    \/ LexLess(a.ymd, b.ymd)
    \/ a.ymd = b.ymd /\ (\/ a.time = <<>> /\ b.time # <<>>
                         \/ a.time # <<>> /\ b.time # <<>> /\ a.time[1] < b.time[1])

TextLeq(a, b) == a = b \/ TextLess(a, b)

---------------------------------------------------------------------------
(* Values *)

\* an SQL NULL or a missing property is the empty tuple, a value v is <<v>>
NULL == <<>>

Val(v) == <<v>>

\* the falsy status values of JavaScript: undefined, null, ''
NoStatus == ""

Statuses == {"pending", "approved", "rejected", "flagged"}

\* a JavaScript number used as a condition: null, undefined and 0 are falsy
Truthy(x) == x # NULL /\ x[1] # 0

\* texts are tuples of characters where the code looks into them
UpperChars == <<"A","B","C","D","E","F","G","H","I","J","K","L","M",
                "N","O","P","Q","R","S","T","U","V","W","X","Y","Z">>

LowerChars == <<"a","b","c","d","e","f","g","h","i","j","k","l","m",
                "n","o","p","q","r","s","t","u","v","w","x","y","z">>

\* String.prototype.toLowerCase
ToLowerCase(s) ==
    [i \in 1..Len(s) |->
        IF \E k \in 1..26 : UpperChars[k] = s[i]
        THEN LowerChars[CHOOSE k \in 1..26 : UpperChars[k] = s[i]]
        ELSE s[i]]

\* String.prototype.includes
Includes(s, sub) ==
    \E i \in 1..(Len(s) - Len(sub) + 1) : SubSeq(s, i, i + Len(sub) - 1) = sub

---------------------------------------------------------------------------
(* The general fraud heuristic of the client: utils/ai.ts *)

\* utils/db.ts industryBenchmarks: averageMonthly by category
BenchmarkCategories == {"Office Supplies", "Food & Entertainment", "Travelling",
                        "Accommodation", "Client & Project Expenses", "Subscriptions"}

AverageMonthly(category) ==
    CASE category = "Office Supplies" -> 350
      [] category = "Food & Entertainment" -> 800
      [] category = "Travelling" -> 1500
      [] category = "Accommodation" -> 2000
      [] category = "Client & Project Expenses" -> 3000
      [] category = "Subscriptions" -> 700

SuspiciousKeywords ==
    << <<"g","i","f","t">>,
       <<"p","e","r","s","o","n","a","l">>,
       <<"c","a","s","h">>,
       <<"a","d","v","a","n","c","e">>,
       <<"r","e","i","m","b","u","r","s","e","m","e","n","t">> >>

KeywordNames == <<"gift", "personal", "cash", "advance", "reimbursement">>

\* the first keyword of the list that the lower-cased description contains
FirstKeyword(description) ==
    LET lowercaseDesc == ToLowerCase(description)
        hits == {k \in 1..Len(SuspiciousKeywords) : Includes(lowercaseDesc, SuspiciousKeywords[k])}
    IN  IF description = <<>> \/ hits = {} THEN <<>>
        ELSE <<[rule |-> "keyword",
                detail |-> KeywordNames[CHOOSE k \in hits : \A j \in hits : k <= j]]>>

\* detectFraud(expense) at the client's clock now and the client's zone offset:
\* the reasons, in the order the rules are evaluated
DetectFraudReasons(expense, now, off) ==
    LET expenseDate == ParseDate(expense.date)
        dayOfWeek == GetDay(expenseDate, off)
    IN  (IF expense.category \in BenchmarkCategories
            /\ expense.amount > AverageMonthly(expense.category) * 3
         THEN <<[rule |-> "amount", detail |-> expense.category]>> ELSE <<>>)
        \o (IF dayOfWeek = 0 \/ dayOfWeek = 6
            THEN <<[rule |-> "weekend", detail |-> ""]>> ELSE <<>>)
        \o (IF expenseDate > now
            THEN <<[rule |-> "future", detail |-> ""]>> ELSE <<>>)
        \o FirstKeyword(expense.description)

DetectFraud(expense, now, off) ==
    LET reasons == DetectFraudReasons(expense, now, off)
    IN  [isFraud |-> Len(reasons) > 0, reasons |-> reasons]

---------------------------------------------------------------------------
(* The tables of server.js *)

\* initializeDatabase: the six default policies (the columns maxAmount and
\* dailyLimit are NULL in every default and are read by no handler)
DefaultPolicy(category) ==
    CASE category = "Office Supplies" ->
            [weeklyLimit |-> Val(2500), monthlyLimit |-> Val(10000), currency |-> "INR"]
      [] category = "Food & Entertainment" ->
            [weeklyLimit |-> Val(1250), monthlyLimit |-> Val(5000), currency |-> "INR"]
      [] category = "Travelling" ->
            [weeklyLimit |-> Val(2500), monthlyLimit |-> Val(10000), currency |-> "INR"]
      [] category = "Accommodation" ->
            [weeklyLimit |-> Val(1250), monthlyLimit |-> Val(5000), currency |-> "INR"]
      [] category = "Client & Project Expenses" ->
            [weeklyLimit |-> Val(25000), monthlyLimit |-> Val(100000), currency |-> "INR"]
      [] category = "Subscriptions" ->
            [weeklyLimit |-> Val(12500), monthlyLimit |-> Val(50000), currency |-> "INR"]

DefaultPolicies == [c \in BenchmarkCategories |-> DefaultPolicy(c)]

\* the ids of table expenses: the id of a row is its index
Ids(rows) == 1..Len(rows)

\* createDefaultManagerIfNeeded: the manager account 'admin' of a new database
\* (of a row of users the model keeps the columns role and isActive)
DefaultUsers == [u \in {"admin"} |-> [role |-> "manager", isActive |-> 1]]

---------------------------------------------------------------------------
(* POST /api/expenses *)

\* the check of the required fields: a 0 amount and an empty text are falsy
MissingFields(expense) ==
    \/ expense.userId = ""
    \/ expense.amount = 0
    \/ expense.currency = ""
    \/ expense.category = ""
    \/ expense.description = <<>>

\* the week of the expense date in the zone of the server: Sunday 00:00 to
\* Saturday 23:59:59.999 local time, as the ISO texts bound to the query
StartOfWeek(date, off) ==
    LET currentDate == ParseDate(date)
        dayOfWeek == GetDay(currentDate, off)
    IN  ToISOString(LocalTime(LocalDay(currentDate, off) - dayOfWeek, 0, off))

EndOfWeek(date, off) ==
    LET currentDate == ParseDate(date)
        dayOfWeek == GetDay(currentDate, off)
    IN  ToISOString(LocalTime(LocalDay(currentDate, off) - dayOfWeek + 6,
                              MinutesPerDay - 1, off))

\* the month of the expense date in the zone of the server: new Date(y, m, 1)
\* to new Date(y, m + 1, 0, 23, 59, 59)
StartOfMonth(date, off) ==
    ToISOString(LocalTime(MonthStart[GetMonth(ParseDate(date), off)], 0, off))

EndOfMonth(date, off) ==
    ToISOString(LocalTime(MonthStart[GetMonth(ParseDate(date), off) + 1] - 1,
                          MinutesPerDay - 1, off))

\* (a slip: rejected expenses left out of the sum)
MatchingRows_SkipsRejected(rows, userId, category, from, to, currency) ==
    {i \in Ids(rows) :
        /\ rows[i].userId = userId
        /\ rows[i].category = category
        /\ TextLeq(from, DateText(rows[i].date))
        /\ TextLeq(DateText(rows[i].date), to)
        /\ rows[i].currency = currency
        /\ rows[i].status # "rejected"}

\* WHERE userId = ? AND category = ? AND date >= ? AND date <= ? AND currency = ?
MatchingRows(rows, userId, category, from, to, currency) ==
    {i \in Ids(rows) :
        /\ rows[i].userId = userId
        /\ rows[i].category = category
        /\ TextLeq(from, DateText(rows[i].date))
        /\ TextLeq(DateText(rows[i].date), to)
        /\ rows[i].currency = currency}

RECURSIVE SumAmounts(_, _)
SumAmounts(rows, ids) ==
    IF ids = {} THEN 0
    ELSE LET i == CHOOSE j \in ids : TRUE
         IN  rows[i].amount + SumAmounts(rows, ids \ {i})

\* SELECT SUM(amount) as totalAmount: NULL when no row matches
TotalAmount(rows, userId, category, from, to, currency) ==
    LET ids == MatchingRows(rows, userId, category, from, to, currency)
    IN  IF ids = {} THEN NULL ELSE Val(SumAmounts(rows, ids))

\* (a slip: the sum of the prior rows left out of the total)
RunningTotal_NewAmountAlone(totalAmount, amount) == amount

\* (rows[0].totalAmount || 0) + expense.amount
RunningTotal(totalAmount, amount) ==
    (IF Truthy(totalAmount) THEN totalAmount[1] ELSE 0) + amount

WeeklyTotal(expense, rows, off) ==
    RunningTotal(TotalAmount(rows, expense.userId, expense.category,
                             StartOfWeek(expense.date, off), EndOfWeek(expense.date, off),
                             expense.currency),
                 expense.amount)

MonthlyTotal(expense, rows, off) ==
    RunningTotal(TotalAmount(rows, expense.userId, expense.category,
                             StartOfMonth(expense.date, off), EndOfMonth(expense.date, off),
                             expense.currency),
                 expense.amount)

\* (a slip: the comparison written >=)
ExceedsLimit_AtLimit(limit, total) == Truthy(limit) /\ total >= limit[1]

\* policy.weeklyLimit && weeklyTotal > policy.weeklyLimit
ExceedsLimit(limit, total) == Truthy(limit) /\ total > limit[1]

\* the text "Exceeds weekly limit of L CUR (weekly total: T)", by its parts
LimitMessage(period, policy, total) ==
    [kind |-> period,
     limit |-> IF period = "weekly" THEN policy.weeklyLimit ELSE policy.monthlyLimit,
     currency |-> policy.currency,
     total |-> Val(total)]

\* (a slip: the status of the submission kept when no policy is found)
NoPolicyDecision_KeepsStatus(expense) == expense

\* no policy found: set as pending for manager review
NoPolicyDecision(expense) == [expense EXCEPT !.status = "pending"]

\* the status and the notes given to an expense on the policy and the totals
\* the handler has read
DecideOnTotals(expense, policy, weeklyTotal, monthlyTotal) ==
    LET withinWeeklyLimit == ~ExceedsLimit(policy.weeklyLimit, weeklyTotal)
        withinMonthlyLimit == ~ExceedsLimit(policy.monthlyLimit, monthlyTotal)
        limitMessage == IF ~withinWeeklyLimit
                        THEN LimitMessage("weekly", policy, weeklyTotal)
                        ELSE LimitMessage("monthly", policy, monthlyTotal)
    IN  IF withinWeeklyLimit /\ withinMonthlyLimit
        THEN [expense EXCEPT !.status = "approved"]
        ELSE [expense EXCEPT !.status = "pending",
                             !.notes = expense.notes \o <<limitMessage>>]

\* the status and the notes the handler gives the expense of the request
\* when nothing runs between its reads
DecideExpense(expense, rows, pols, off) ==
    IF expense.category \notin DOMAIN pols
    THEN NoPolicyDecision(expense)
    ELSE DecideOnTotals(expense, pols[expense.category],
                        WeeklyTotal(expense, rows, off), MonthlyTotal(expense, rows, off))

\* the locals weeklyTotal and monthlyTotal of a request whose category has a policy
Totals(expense, rows, pols, off) ==
    IF expense.category \notin DOMAIN pols THEN <<>>
    ELSE <<WeeklyTotal(expense, rows, off), MonthlyTotal(expense, rows, off)>>

\* expense.status = expense.status || 'pending'
DefaultStatus(expense) ==
    [expense EXCEPT !.status = IF expense.status = NoStatus THEN "pending" ELSE expense.status]

\* the row the handler inserts for a request that has its fields
RowToInsert(expense, rows, pols, off) ==
    DefaultStatus(DecideExpense(expense, rows, pols, off))

\* what `last` holds for a request: the operation, the body sent to the
\* server, the HTTP status of the response, the id and the status of the
\* response body, the status that ExpenseContext.addExpense returned to its
\* caller, the isFraud of the heuristic the client ran, and the handler's
\* locals weeklyTotal and monthlyTotal (<<>> when it computed none)
Response(op, request, code, id, status, returned, isFraud, totals) ==
    [op |-> op, request |-> request, code |-> code, id |-> id, status |-> status,
     returned |-> returned, isFraud |-> isFraud, totals |-> totals]

\* (the fields are written in the order TLC sorts them to, so that a body
\* built once and read by both workers is never reordered)
Body(userId, amount, currency, date, category, description, notes, status) ==
    [category |-> category, description |-> description, date |-> date,
     amount |-> amount, currency |-> currency, userId |-> userId,
     status |-> status, notes |-> notes]

NoBody == Body("", 0, "", 0, "", <<>>, <<>>, NoStatus)

NoRequest == Response("none", NoBody, 0, 0, NoStatus, NoStatus, FALSE, <<>>)

\* the handler of POST /api/expenses on the request body `expense` with id `id`:
\* 400 on a missing field, 500 when the INSERT fails on the primary key,
\* else the row is inserted and 201 carries its status
PostExpenseHandler(op, id, expense, isFraud) ==
    IF MissingFields(expense)
    THEN /\ last' = Response(op, expense, 400, id, NoStatus, NoStatus, isFraud, <<>>)
         /\ UNCHANGED expenses
    ELSE LET row == RowToInsert(expense, expenses, policies, tz)
             totals == Totals(expense, expenses, policies, tz)
         IN  IF id \in Ids(expenses)
             THEN /\ last' = Response(op, expense, 500, id, NoStatus, NoStatus, isFraud, totals)
                  /\ UNCHANGED expenses
             ELSE /\ expenses' = Append(expenses, row)
                  /\ last' = Response(op, expense, 201, id, row.status,
                                      IF isFraud THEN "flagged" ELSE row.status,
                                      isFraud, totals)

\* ExpenseContext.addExpense: the fraud heuristic runs in the browser, at the
\* browser's clock and zone; the status sent is 'flagged' on fraud and is
\* deleted from the submission otherwise; the id is a fresh random UUID
ApiSubmission(userId, amount, currency, date, category, description, notes, now, off) ==
    LET tempExpense == Body(userId, amount, currency, date, category,
                            description, notes, "pending")
        fraud == DetectFraud(tempExpense, now, off)
    IN  [isFraud |-> fraud.isFraud,
         body |-> [tempExpense EXCEPT
                        !.status = IF fraud.isFraud THEN "flagged" ELSE NoStatus]]

AddExpenseCall(userId, amount, currency, date, category, description, notes, now, off) ==
    /\ Len(expenses) < MaxExpenses
    /\ LET apiSubmission == ApiSubmission(userId, amount, currency, date, category,
                                          description, notes, now, off)
       IN  PostExpenseHandler("addExpense", Len(expenses) + 1,
                              apiSubmission.body, apiSubmission.isFraud)

\* addExpense called by a component that changes nothing else
AddExpense(userId, amount, currency, date, category, description, notes, now, off) ==
    /\ AddExpenseCall(userId, amount, currency, date, category, description, notes, now, off)
    /\ UNCHANGED <<policies, tz, beyondTables>>

\* POST /api/expenses called directly: the body is whatever the caller sends
PostExpense(id, expense) ==
    /\ Len(expenses) < MaxExpenses
    /\ PostExpenseHandler("postExpense", id, expense, FALSE)
    /\ UNCHANGED <<policies, tz, beyondTables>>

---------------------------------------------------------------------------
(* POST /api/expenses await by await.  The handler awaits the read of the  *)
(* policy, the weekly sum, the monthly sum and the INSERT; between two     *)
(* awaits the handlers of other requests run.  A slot holds the locals of  *)
(* one request; `seen` is the number of rows persisted when the sums were  *)
(* read, `failed` the await at which a statement of the database threw.    *)

Requests == 1..MaxRequests

IdleRequest ==
    [pc |-> "idle", expense |-> NoBody, policy |-> NULL, weeklyTotal |-> 0,
     monthlyTotal |-> 0, seen |-> <<>>, failed |-> "", code |-> 0, row |-> 0]

\* the catch of the handler: 500 'Server error', nothing inserted
Failed(request) == [request EXCEPT !.pc = "done", !.failed = request.pc, !.code = 500]

\* the request arrives: 400 on a missing field
Receive(r, expense) ==
    /\ inflight[r].pc = "idle"
    /\ inflight' = [inflight EXCEPT ![r] =
            IF MissingFields(expense)
            THEN [inflight[r] EXCEPT !.pc = "done", !.expense = expense, !.code = 400]
            ELSE [inflight[r] EXCEPT !.pc = "policy", !.expense = expense]]
    /\ UNCHANGED <<expenses, policies, tz, last, users, session, form, replay, rateVars, views, checked, submission, listing>>

\* await db.get('SELECT * FROM policies WHERE category = ?')
ReadPolicy(r, throws) ==
    /\ inflight[r].pc = "policy"
    /\ LET q == inflight[r]
       IN  inflight' = [inflight EXCEPT ![r] =
                IF throws THEN Failed(q)
                ELSE IF q.expense.category \notin DOMAIN policies
                THEN [q EXCEPT !.pc = "insert", !.expense = NoPolicyDecision(q.expense)]
                ELSE [q EXCEPT !.pc = "weekly", !.policy = Val(policies[q.expense.category])]]
    /\ UNCHANGED <<expenses, policies, tz, last, users, session, form, replay, rateVars, views, checked, submission, listing>>

\* await db.all(weekly sum), then weeklyTotal
ReadWeekly(r, throws) ==
    /\ inflight[r].pc = "weekly"
    /\ LET q == inflight[r]
       IN  inflight' = [inflight EXCEPT ![r] =
                IF throws THEN Failed(q)
                ELSE [q EXCEPT !.pc = "monthly",
                               !.weeklyTotal = WeeklyTotal(q.expense, expenses, tz),
                               !.seen = <<Len(expenses)>>]]
    /\ UNCHANGED <<expenses, policies, tz, last, users, session, form, replay, rateVars, views, checked, submission, listing>>

\* await db.all(monthly sum), then monthlyTotal and the decision
ReadMonthly(r, throws) ==
    /\ inflight[r].pc = "monthly"
    /\ LET q == inflight[r]
           monthlyTotal == MonthlyTotal(q.expense, expenses, tz)
       IN  inflight' = [inflight EXCEPT ![r] =
                IF throws THEN Failed(q)
                ELSE [q EXCEPT !.pc = "insert",
                               !.monthlyTotal = monthlyTotal,
                               !.seen = q.seen \o <<Len(expenses)>>,
                               !.expense = DecideOnTotals(q.expense, q.policy[1],
                                                          q.weeklyTotal, monthlyTotal)]]
    /\ UNCHANGED <<expenses, policies, tz, last, users, session, form, replay, rateVars, views, checked, submission, listing>>

\* await db.run('INSERT INTO expenses ...'), then 201 with the status
InsertExpense(r, throws) ==
    /\ inflight[r].pc = "insert"
    /\ IF throws
       THEN /\ inflight' = [inflight EXCEPT ![r] = Failed(inflight[r])]
            /\ UNCHANGED expenses
       ELSE /\ expenses' = Append(expenses, DefaultStatus(inflight[r].expense))
            /\ inflight' = [inflight EXCEPT ![r] =
                    [inflight[r] EXCEPT !.pc = "done", !.code = 201,
                                        !.row = Len(expenses) + 1]]
    /\ UNCHANGED <<policies, tz, last, users, session, form, replay, rateVars, views, checked, submission, listing>>

---------------------------------------------------------------------------
(* PUT /api/expenses/:id *)

\* UPDATE expenses SET amount, currency, date, category, description,
\* receiptImage, status, notes WHERE id = ?: userId is not in the SET list
UpdatedRow(row, expense) ==
    [row EXCEPT !.amount = expense.amount, !.currency = expense.currency,
                !.date = expense.date, !.category = expense.category,
                !.description = expense.description, !.status = expense.status,
                !.notes = expense.notes]

\* the table after the UPDATE: a row is changed when it has the id
UpdatedExpenses(rows, id, expense) ==
    [i \in Ids(rows) |-> IF i = id THEN UpdatedRow(rows[i], expense) ELSE rows[i]]

UpdateExpense(id, expense) ==
    /\ expenses' = UpdatedExpenses(expenses, id, expense)
    /\ last' = Response("updateExpense", expense, 200, id, NoStatus, NoStatus, FALSE, <<>>)
    /\ UNCHANGED <<policies, tz, beyondTables>>

---------------------------------------------------------------------------
(* PUT /api/policies/:category *)

UpdatedPolicies_Upsert(pols, category, policy) ==
    [c \in DOMAIN pols \cup {category} |-> IF c = category THEN policy ELSE pols[c]]

\* UPDATE policies SET ... WHERE category = ?: no row is inserted
UpdatedPolicies(pols, category, policy) ==
    [c \in DOMAIN pols |-> IF c = category THEN policy ELSE pols[c]]

UpdatePolicy(category, policy) ==
    /\ policies' = UpdatedPolicies(policies, category, policy)
    /\ last' = Response("updatePolicy", NoBody, 200, 0, NoStatus, NoStatus, FALSE, <<>>)
    /\ UNCHANGED <<expenses, tz, beyondTables>>

\* initializeDatabase: SELECT * FROM policies, and the six defaults inserted
\* when it returns no row
SeedPolicies(pols) == IF DOMAIN pols = {} THEN DefaultPolicies ELSE pols

\* initializeDatabase when the server starts again on its database file:
\* CREATE TABLE IF NOT EXISTS keeps the tables and their rows
InitializeDatabase ==
    /\ policies' = SeedPolicies(policies)
    /\ last' = Response("initializeDatabase", NoBody, 0, 0, NoStatus, NoStatus, FALSE, <<>>)
    /\ UNCHANGED <<expenses, tz, beyondTables>>

\* Math.round(monthlyLimit / 4) of a positive whole monthly limit
WeeklyOfMonthly(monthlyLimit) == (monthlyLimit + 2) \div 4

\* ExpensePolicy.handleSave: the page refuses a monthly limit <= 0, sets the
\* weekly limit to a quarter of the monthly one, and sends the policy
HandleSave(category, monthlyLimit, currency) ==
    /\ monthlyLimit > 0
    /\ category \in DOMAIN policies
    /\ UpdatePolicy(category, [weeklyLimit |-> Val(WeeklyOfMonthly(monthlyLimit)),
                               monthlyLimit |-> Val(monthlyLimit),
                               currency |-> currency])

---------------------------------------------------------------------------
(* The rates of the day: fetchAndStoreCurrencyRates await by await, on the *)
(* one connection `db` of the process.  A rate is a fraction <<n, d>>.  A  *)
(* statement that SQLite refuses throws: BEGIN inside a transaction,       *)
(* COMMIT or ROLLBACK outside one, an INSERT that breaks UNIQUE(date,      *)
(* from, to).  ROLLBACK undoes every statement run on the connection since *)
(* BEGIN, whoever ran it.  Only the rows dated today are kept: every query *)
(* of these handlers selects them.                                         *)

Refreshes == 1..MaxRefreshes

Rate(from, to, rate) == [from |-> from, to |-> to, rate |-> rate]

\* rates of the exchange rate API for base INR, and 1 / rates[currency]
ApiRates ==
    << Rate("INR", "USD", <<1, 80>>), Rate("USD", "INR", <<80, 1>>),
       Rate("INR", "EUR", <<1, 90>>), Rate("EUR", "INR", <<90, 1>>),
       Rate("INR", "GBP", <<1, 100>>), Rate("GBP", "INR", <<100, 1>>),
       Rate("INR", "INR", <<1, 1>>) >>

\* fallbackRates, in the order they are inserted
FallbackRates ==
    << Rate("INR", "USD", <<12, 1000>>), Rate("INR", "EUR", <<11, 1000>>),
       Rate("INR", "GBP", <<94, 10000>>), Rate("INR", "INR", <<1, 1>>),
       Rate("USD", "INR", <<8316, 100>>), Rate("EUR", "INR", <<9091, 100>>),
       Rate("GBP", "INR", <<10638, 100>>) >>

\* the rows a run inserts: the rates fetched, or the fallback rates
RowsToStore(phase) == IF phase = "main" THEN ApiRates ELSE FallbackRates

\* SELECT rate FROM conversion_rates WHERE date_fetched = today AND
\* from_currency = ? AND to_currency = ?
RateRows(rows, from, to) == {row \in rows : row.from = from /\ row.to = to}

IdleRefresh ==
    [pc |-> "idle", kind |-> "", phase |-> "main", i |-> 0, amount |-> 0,
     from |-> "", to |-> "", code |-> 0, result |-> <<>>, threw |-> FALSE,
     fetchFailed |-> FALSE]

\* amount * rate.rate
Times(amount, rate) == <<amount * rate[1], rate[2]>>

\* the answer of POST /api/convert-currency on the rate read, 404 with none
ConvertAnswer(q, rows) ==
    LET found == RateRows(rows, q.from, q.to)
    IN  IF found = {}
        THEN [q EXCEPT !.pc = "done", !.code = 404]
        ELSE [q EXCEPT !.pc = "done", !.code = 200,
                       !.result = Times(q.amount, (CHOOSE row \in found : TRUE).rate)]

\* fetchAndStoreCurrencyRates returns or throws: the timer has nothing more to
\* do; the handler of /api/convert-currency reads the rate again, or answers
\* 500 from its catch
Finish(q, throws) ==
    IF q.kind = "convert"
    THEN IF throws THEN [q EXCEPT !.pc = "done", !.code = 500, !.threw = TRUE]
         ELSE [q EXCEPT !.pc = "reread"]
    ELSE [q EXCEPT !.pc = "done", !.threw = throws]

\* the calls are numbered as they start
NextRefresh(p) == refresh[p].pc = "idle" /\ \A o \in 1..(p - 1) : refresh[o].pc # "idle"

\* the outer catch of fetchAndStoreCurrencyRates: the fallback begins
ToFallback(q) == [q EXCEPT !.phase = "fallback", !.pc = "count", !.i = 0]

\* setInterval(fetchAndStoreCurrencyRates, 24 h), and the call at startup
StartTimer(p) ==
    /\ NextRefresh(p)
    /\ refresh' = [refresh EXCEPT ![p] = [IdleRefresh EXCEPT !.pc = "count", !.kind = "timer"]]
    /\ UNCHANGED <<rates, txn, conv, beyondRates>>

\* POST /api/convert-currency arrives: 400 on a falsy field
ConvertReceive(p, amount, from, to) ==
    /\ NextRefresh(p)
    /\ refresh' = [refresh EXCEPT ![p] =
            [IdleRefresh EXCEPT !.pc = IF amount = 0 \/ from = "" \/ to = ""
                                      THEN "done" ELSE "read",
                                !.code = IF amount = 0 \/ from = "" \/ to = ""
                                        THEN 400 ELSE 0,
                                !.kind = "convert", !.amount = amount,
                                !.from = from, !.to = to]]
    /\ UNCHANGED <<rates, txn, beyondRates>>

\* await db.get(rate): the answer, or fetchAndStoreCurrencyRates when no row
ConvertRead(p) ==
    /\ refresh[p].pc = "read"
    /\ refresh' = [refresh EXCEPT ![p] =
            IF RateRows(rates, refresh[p].from, refresh[p].to) = {}
            THEN [refresh[p] EXCEPT !.pc = "count"]
            ELSE ConvertAnswer(refresh[p], rates)]
    /\ UNCHANGED <<rates, txn, conv, beyondRates>>

\* await db.get(rate) after fetchAndStoreCurrencyRates
ConvertReread(p) ==
    /\ refresh[p].pc = "reread"
    /\ refresh' = [refresh EXCEPT ![p] = ConvertAnswer(refresh[p], rates)]
    /\ UNCHANGED <<rates, txn, conv, beyondRates>>

\* await db.get('SELECT COUNT(*) ... WHERE date_fetched = today'): the run
\* returns when rows exist; the fallback inserts only when none does
CountRates(p) ==
    /\ refresh[p].pc = "count"
    /\ refresh' = [refresh EXCEPT ![p] =
            IF rates # {} THEN Finish(refresh[p], FALSE)
            ELSE IF refresh[p].phase = "main" THEN [refresh[p] EXCEPT !.pc = "fetch"]
            ELSE [refresh[p] EXCEPT !.pc = "begin"]]
    /\ UNCHANGED <<rates, txn, conv, beyondRates>>

\* await axios.get(EXCHANGE_RATE_API): a failure or a response without rates
\* is thrown to the outer catch; fetchFailed keeps that this call had no response
FetchRates(p, ok) ==
    /\ refresh[p].pc = "fetch"
    /\ refresh' = [refresh EXCEPT ![p] =
            IF ok THEN [refresh[p] EXCEPT !.pc = "begin"]
            ELSE [ToFallback(refresh[p]) EXCEPT !.fetchFailed = TRUE]]
    /\ UNCHANGED <<rates, txn, conv, beyondRates>>

\* await db.run('BEGIN TRANSACTION'): in main it is outside the inner try, so
\* its error goes to the outer catch; in the fallback to the catch that rolls back
BeginTransaction(p) ==
    /\ refresh[p].pc = "begin"
    /\ IF txn # NULL
       THEN /\ refresh' = [refresh EXCEPT ![p] =
                    IF refresh[p].phase = "main" THEN ToFallback(refresh[p])
                    ELSE [refresh[p] EXCEPT !.pc = "rollback"]]
            /\ UNCHANGED txn
       ELSE /\ txn' = Val(rates)
            /\ refresh' = [refresh EXCEPT ![p] = [refresh[p] EXCEPT !.pc = "insert", !.i = 1]]
    /\ UNCHANGED <<rates, conv, beyondRates>>

\* await db.run('INSERT INTO conversion_rates ...') of the next row
InsertRate(p) ==
    /\ refresh[p].pc = "insert"
    /\ LET q == refresh[p]
           row == RowsToStore(q.phase)[q.i]
       IN  IF RateRows(rates, row.from, row.to) # {}
           THEN /\ refresh' = [refresh EXCEPT ![p] = [q EXCEPT !.pc = "rollback"]]
                /\ UNCHANGED rates
           ELSE /\ rates' = rates \cup {row}
                /\ refresh' = [refresh EXCEPT ![p] =
                        IF q.i = Len(RowsToStore(q.phase))
                        THEN [q EXCEPT !.pc = "commit"]
                        ELSE [q EXCEPT !.i = q.i + 1]]
    /\ UNCHANGED <<txn, conv, beyondRates>>

\* await db.run('COMMIT')
Commit(p) ==
    /\ refresh[p].pc = "commit"
    /\ IF txn = NULL
       THEN /\ refresh' = [refresh EXCEPT ![p] = [refresh[p] EXCEPT !.pc = "rollback"]]
            /\ UNCHANGED txn
       ELSE /\ txn' = NULL
            /\ refresh' = [refresh EXCEPT ![p] = Finish(refresh[p], FALSE)]
    /\ UNCHANGED <<rates, conv, beyondRates>>

\* await db.run('ROLLBACK') in a catch: in main the error caught is thrown
\* again, to the outer catch, and so is the error of a ROLLBACK that fails; in
\* the fallback a ROLLBACK that fails rejects the whole call
Rollback(p) ==
    /\ refresh[p].pc = "rollback"
    /\ IF txn = NULL
       THEN /\ refresh' = [refresh EXCEPT ![p] =
                    IF refresh[p].phase = "main" THEN ToFallback(refresh[p])
                    ELSE Finish(refresh[p], TRUE)]
            /\ UNCHANGED <<rates, txn>>
       ELSE /\ rates' = txn[1]
            /\ txn' = NULL
            /\ refresh' = [refresh EXCEPT ![p] =
                    IF refresh[p].phase = "main" THEN ToFallback(refresh[p])
                    ELSE Finish(refresh[p], FALSE)]
    /\ UNCHANGED <<conv, beyondRates>>

---------------------------------------------------------------------------
(* The converter of the pages: convertCurrency of utils/currency.ts, and   *)
(* convertExpenseAmount of the expense context around it.  An amount       *)
(* converted is a fraction <<n, d>>.                                       *)

Currencies == {"INR", "USD", "EUR", "GBP"}

\* the rates fetchCurrencyRates returns from its catch
DefaultRates ==
    [currency \in Currencies |->
        CASE currency = "USD" -> <<12, 1000>>
          [] currency = "EUR" -> <<11, 1000>>
          [] currency = "GBP" -> <<94, 10000>>
          [] OTHER -> <<1, 1>>]

\* two fractions of one value
SameValue(a, b) == a[1] * b[2] = b[1] * a[2]

\* amount / rate and amount * rate on fractions
DividedBy(amount, rate) == <<amount[1] * rate[2], amount[2] * rate[1]>>

ByRate(amount, rate) == <<amount[1] * rate[1], amount[2] * rate[2]>>

\* api.getExchangeRates(): GET /api/exchange-rates is registered after
\* app.get('*'), which answers every GET with index.html, so that
\* response.json() of handleResponse throws; so does fetch without a backend
GetExchangeRates == NULL

\* fetchCurrencyRates: the rates of the backend (a rate missing or 0 is 1),
\* the default rates when getExchangeRates throws
FetchCurrencyRates(data) ==
    IF data = NULL THEN DefaultRates
    ELSE [currency \in Currencies |->
            IF currency = "INR" \/ RateRows(data[1], "INR", currency) = {}
            THEN <<1, 1>>
            ELSE (CHOOSE row \in RateRows(data[1], "INR", currency) : TRUE).rate]

\* the catch of convertCurrency: through INR on the rates of fetchCurrencyRates
FallbackConversion(amount, fromCurrency, toCurrency) ==
    LET ratesOf == FetchCurrencyRates(GetExchangeRates)
    IN  IF fromCurrency # "INR" /\ toCurrency # "INR"
        THEN ByRate(DividedBy(<<amount, 1>>, ratesOf[fromCurrency]), ratesOf[toCurrency])
        ELSE IF fromCurrency = "INR"
             THEN ByRate(<<amount, 1>>, ratesOf[toCurrency])
             ELSE DividedBy(<<amount, 1>>, ratesOf[fromCurrency])

SameCurrency_Never(fromCurrency, toCurrency) == FALSE

\* if (fromCurrency === toCurrency) return amount
SameCurrency(fromCurrency, toCurrency) == fromCurrency = toCurrency

IdleConversion ==
    [pc |-> "idle", amount |-> 0, from |-> "", to |-> "", slot |-> 0,
     calls |-> 0, result |-> <<>>, raised |-> FALSE]

\* convertExpenseAmount: the amount of the expense when convertCurrency throws
ConvertExpenseAmount(c) ==
    IF c.raised THEN [c EXCEPT !.result = <<c.amount, 1>>, !.raised = FALSE] ELSE c

\* convertExpenseAmount(expense, targetCurrency) up to the first await of
\* convertCurrency: the amount itself for one currency; the fallback when fetch
\* cannot reach the backend; else the request is with the backend
ConvertCurrency(amount, fromCurrency, toCurrency, p, reachable) ==
    /\ conv.pc = "idle"
    /\ LET c == [IdleConversion EXCEPT !.amount = amount, !.from = fromCurrency,
                                       !.to = toCurrency]
       IN  IF SameCurrency(fromCurrency, toCurrency)
           THEN /\ conv' = ConvertExpenseAmount(
                              [c EXCEPT !.pc = "done", !.result = <<amount, 1>>])
                /\ UNCHANGED <<rates, txn, refresh, beyondRates>>
           ELSE IF ~reachable
           THEN /\ conv' = ConvertExpenseAmount(
                              [c EXCEPT !.pc = "done", !.calls = 2,
                                        !.result = FallbackConversion(amount, fromCurrency, toCurrency)])
                /\ UNCHANGED <<rates, txn, refresh, beyondRates>>
           ELSE /\ ConvertReceive(p, amount, fromCurrency, toCurrency)
                /\ conv' = [c EXCEPT !.pc = "waiting", !.slot = p, !.calls = 1]

\* the response of POST /api/convert-currency arrives: its result, or the
\* fallback when handleResponse throws on a status other than 2xx
ConvertReturn ==
    /\ conv.pc = "waiting"
    /\ refresh[conv.slot].pc = "done"
    /\ conv' = ConvertExpenseAmount(
                  IF refresh[conv.slot].code = 200
                  THEN [conv EXCEPT !.pc = "done", !.result = refresh[conv.slot].result]
                  ELSE [conv EXCEPT !.pc = "done", !.calls = 2,
                                    !.result = FallbackConversion(conv.amount, conv.from, conv.to)])
    /\ UNCHANGED <<rates, txn, refresh, beyondRates>>

\* POST /api/convert-currency of any other client of the API
PostConvertCurrency(p, amount, fromCurrency, toCurrency) ==
    /\ ConvertReceive(p, amount, fromCurrency, toCurrency)
    /\ UNCHANGED conv

---------------------------------------------------------------------------
(* Accounts: POST /api/users, PUT /api/users/:id/approve, POST             *)
(* /api/auth/login and the AuthContext of the browser.  No request carries *)
(* the identity of its sender: the handlers of server.js read no session,  *)
(* token or role.                                                          *)

Reply(op, code) == Response(op, NoBody, code, 0, NoStatus, NoStatus, FALSE, <<>>)

\* POST /api/users: 400 when the username exists, else the row is inserted,
\* active for a manager and inactive for an employee
CreateUser(id, role) ==
    /\ IF id \in DOMAIN users
       THEN last' = Reply("createUser", 400) /\ UNCHANGED users
       ELSE /\ users' = [u \in DOMAIN users \cup {id} |->
                            IF u = id
                            THEN [role |-> role, isActive |-> IF role = "manager" THEN 1 ELSE 0]
                            ELSE users[u]]
            /\ last' = Reply("createUser", 201)
    /\ UNCHANGED <<expenses, policies, tz, session, form, replay, inflight, rateVars, views, checked, submission, listing>>

\* PUT /api/users/:id/approve: 404 for an unknown id, else isActive = 1
ApproveEmployee(id) ==
    /\ IF id \notin DOMAIN users
       THEN last' = Reply("approveEmployee", 404) /\ UNCHANGED users
       ELSE /\ users' = [users EXCEPT ![id].isActive = 1]
            /\ last' = Reply("approveEmployee", 200)
    /\ UNCHANGED <<expenses, policies, tz, session, form, replay, inflight, rateVars, views, checked, submission, listing>>

\* AuthContext.login over POST /api/auth/login: 401 for an unknown user, a
\* wrong password or an employee that is not active; a manager is activated
\* and let in; the user of a successful login becomes currentUser
Login(username, passwordOk) ==
    /\ IF username \notin DOMAIN users \/ ~passwordOk
       THEN last' = Reply("login", 401) /\ UNCHANGED <<users, session>>
       ELSE IF users[username].role = "manager"
       THEN /\ users' = [users EXCEPT ![username].isActive = 1]
            /\ session' = Val([id |-> username, role |-> "manager"])
            /\ last' = Reply("login", 200)
       ELSE IF users[username].isActive # 1
       THEN last' = Reply("login", 401) /\ UNCHANGED <<users, session>>
       ELSE /\ session' = Val([id |-> username, role |-> users[username].role])
            /\ last' = Reply("login", 200)
            /\ UNCHANGED users
    /\ UNCHANGED <<expenses, policies, tz, form, replay, inflight, rateVars, views, checked, submission, listing>>

\* AuthContext.logout
Logout ==
    /\ session # NULL
    /\ session' = NULL
    /\ last' = Reply("logout", 0)
    /\ UNCHANGED <<expenses, policies, tz, users, form, replay, inflight, rateVars, views, checked, submission, listing>>

\* AuthContext.isManager: currentUser?.role === 'manager'
IsManager == session # NULL /\ session[1].role = "manager"

---------------------------------------------------------------------------
(* The pages *)

\* String.prototype.trim, for the space character
Trim(s) ==
    LET inked == {i \in 1..Len(s) : s[i] # " "}
    IN  IF inked = {} THEN <<>>
        ELSE SubSeq(s, CHOOSE i \in inked : \A j \in inked : i <= j,
                       CHOOSE i \in inked : \A j \in inked : j <= i)

\* ExpenseContext.validateExpenseAgainstPolicy: the amount against the monthly
\* limit alone (monthlyLimit || 0); valid when the category has no policy
ValidateExpenseAgainstPolicy(amount, category, pols) ==
    IF category \notin DOMAIN pols THEN TRUE
    ELSE amount <= (IF Truthy(pols[category].monthlyLimit)
                    THEN pols[category].monthlyLimit[1] ELSE 0)

\* AddExpense.validateForm: the blocking errors (the policy warning is none)
BlockingErrors(amount, date, description, now) ==
    \/ amount <= 0
    \/ ParseDate(date) > now
    \/ Len(Trim(description)) < 5

\* utils/fraud.ts typicalMaxAmounts
TypicalMaxAmount(category) ==
    CASE category = "Office Supplies" -> 5000
      [] category = "Food & Entertainment" -> 2000
      [] category = "Travelling" -> 10000
      [] category = "Accommodation" -> 8000
      [] category = "Client & Project Expenses" -> 20000
      [] category = "Subscriptions" -> 5000

DetectFraudInReceipt_NoReasonForShortText(textLength, amount, category, draw) ==
    [isFraud |-> textLength < 20 \/ draw,
     reasons |-> IF draw THEN <<"Suspicious pattern detected in receipt text">> ELSE <<>>]

\* detectFraudInReceipt(receiptText, amount, category): a text of fewer than
\* 20 characters is fraud at once; else the amount against 1.5 times the
\* typical maximum, and `Math.random() < 0.05`, whose outcome is `draw`
DetectFraudInReceipt(textLength, amount, category, draw) ==
    IF textLength < 20
    THEN [isFraud |-> TRUE, reasons |-> <<"Receipt text is too short or missing">>]
    ELSE LET high == Truthy(amount) /\ 2 * amount[1] > 3 * TypicalMaxAmount(category)
             reasons == (IF high THEN <<"Amount is unusually high">> ELSE <<>>)
                        \o (IF draw THEN <<"Suspicious pattern detected in receipt text">>
                            ELSE <<>>)
         IN  [isFraud |-> high \/ draw, reasons |-> reasons]

\* extractInfoFromOcrText on what its patterns found in the text: the amount
\* (NULL when none matched), a date, a vendor; the reasons are pushed one by
\* one and isFraud is set when there is any
ExtractInfoFromOcrText(amount, dateFound, vendorFound) ==
    LET reasons ==
            (IF ~Truthy(amount) THEN <<"Could not extract amount from receipt">> ELSE <<>>)
            \o (IF ~dateFound THEN <<"Could not extract date from receipt">> ELSE <<>>)
            \o (IF ~vendorFound
                THEN <<"Could not extract vendor information from receipt">> ELSE <<>>)
            \o (IF Truthy(amount) /\ amount[1] > 50000
                THEN <<"Unusually high amount detected">> ELSE <<>>)
    IN  [amount |-> amount,
         fraudDetection |-> [isFraud |-> Len(reasons) > 0, reasons |-> reasons]]

\* the receipt handler of the page: the check of the extraction and the check
\* of the receipt combined; `extraction` is what extractInfoFromOcrText made
\* of the text
CombinedFraudResult(extraction, textLength, category, draw) ==
    LET fraudResult == DetectFraudInReceipt(textLength, extraction.amount, category, draw)
    IN  [isFraud |-> extraction.fraudDetection.isFraud \/ fraudResult.isFraud,
         reasons |-> extraction.fraudDetection.reasons \o fraudResult.reasons]

\* a receipt is chosen on the page: fraudDetection is set to the combined result
ScanReceipt(extraction, textLength, category, draw) ==
    /\ form' = Val(CombinedFraudResult(extraction, textLength, category, draw))
    /\ UNCHANGED <<expenses, policies, tz, last, users, session, replay, inflight, rateVars, views, checked, submission, listing>>

\* the notes the page writes: the reasons of the receipt check when it said
\* fraud, else the policy warning, else none
FormNotes(amount, category, pols, fraudDetection) ==
    IF fraudDetection # NULL /\ fraudDetection[1].isFraud
    THEN <<[kind |-> "fraud", reasons |-> fraudDetection[1].reasons]>>
    ELSE IF ~ValidateExpenseAgainstPolicy(amount, category, pols)
    THEN <<[kind |-> "form", limit |-> NULL, currency |-> "", total |-> NULL]>>
    ELSE <<>>

\* AddExpense.handleSubmit of the employee logged in: nothing is sent on a
\* blocking error; else the expense goes to addExpense with the notes of the
\* page, and the page forgets its receipt check when the call succeeded
HandleSubmit(amount, currency, date, category, description, now, off) ==
    /\ session # NULL /\ session[1].role = "employee"
    /\ IF BlockingErrors(amount, date, description, now)
       THEN /\ last' = Response("handleSubmit",
                                 Body(session[1].id, amount, currency, date, category,
                                      description, <<>>, NoStatus),
                                 0, 0, NoStatus, NoStatus, FALSE, <<>>)
            /\ UNCHANGED <<expenses, form>>
       ELSE /\ AddExpenseCall(session[1].id, amount, currency, date, category, description,
                              FormNotes(amount, category, policies, form), now, off)
            /\ form' = IF last'.code = 201 THEN NULL ELSE form
    /\ UNCHANGED <<policies, tz, users, session, replay, inflight, rateVars, views, checked, submission, listing>>

\* the rows of a response, each with its id
Listed(rows, ids) == {[id |-> id, expense |-> rows[id]] : id \in ids}

\* GET /api/expenses/user/:userId with role=manager: every row of the user
ExpensesOfUser_AnyStatus(rows, userId, role) ==
    Listed(rows, {id \in Ids(rows) : rows[id].userId = userId})

\* the SELECT of GET /api/expenses/user/:userId: for a manager every row of
\* the user; for any other role `userId = ? AND (status = 'approved' OR
\* status = 'rejected' OR (status = 'pending' AND NOT (status = 'flagged')))`
ExpensesOfUser(rows, userId, role) ==
    IF role = "manager"
    THEN Listed(rows, {id \in Ids(rows) : rows[id].userId = userId})
    ELSE Listed(rows, {id \in Ids(rows) :
                        /\ rows[id].userId = userId
                        /\ \/ rows[id].status = "approved"
                           \/ rows[id].status = "rejected"
                           \/ (rows[id].status = "pending"
                                    /\ ~(rows[id].status = "flagged"))})

NoListing == [userId |-> "", role |-> "", code |-> 0, expenses |-> {}]

\* GET /api/expenses/user/:userId?role=: the role is the query parameter,
\* whatever it is, and no session is asked for
GetExpensesByUserId(userId, role) ==
    /\ listing' = [userId |-> userId, role |-> role, code |-> 200,
                   expenses |-> ExpensesOfUser(expenses, userId, role)]
    /\ UNCHANGED <<expenses, policies, tz, last, users, session, form, replay, inflight,
                   rateVars, views, checked, submission>>

\* handleSubmit await by await.  Every attempt of the retry loop is a call of
\* addExpense, which makes a new id and sends a new POST /api/expenses; an
\* attempt that throws is tried again until maxRetries is exceeded.
MaxRetries == 3

\* what becomes of the request of an attempt: it never reaches the server, it
\* is handled and the response never reaches the page, or the response arrives
Outcomes == {"unreachable", "lost", "answered"}

\* `inserted` are the ids of the rows the server inserted for the attempts
NoSubmission == [pc |-> "idle", expense |-> NoBody, retryCount |-> 0, inserted |-> {}]

\* AddExpense.handleSubmit up to the retry loop: nothing starts on a blocking
\* error; else the expense object is built with the notes of the page
BeginSubmit(amount, currency, date, category, description, now) ==
    /\ session # NULL /\ session[1].role = "employee"
    /\ submission.pc # "attempt"
    /\ ~BlockingErrors(amount, date, description, now)
    /\ submission' = [pc |-> "attempt",
                      expense |-> Body(session[1].id, amount, currency, date, category,
                                       description,
                                       FormNotes(amount, category, policies, form), NoStatus),
                      retryCount |-> 0, inserted |-> {}]
    /\ UNCHANGED <<expenses, policies, tz, last, users, session, form, replay, inflight,
                   rateVars, views, checked, listing>>

\* one turn of the retry loop: `response = await addExpense(expense)`, then
\* break, or the catch that counts the attempt and throws after the last one
SubmitAttempt(outcome, now, off) ==
    /\ submission.pc = "attempt"
    /\ LET e == submission.expense
       IN  IF outcome = "unreachable"
           THEN UNCHANGED <<expenses, last>>
           ELSE AddExpenseCall(e.userId, e.amount, e.currency, e.date, e.category,
                               e.description, e.notes, now, off)
    /\ LET handled == outcome # "unreachable" /\ last'.code = 201
           inserted == submission.inserted \cup (IF handled THEN {last'.id} ELSE {})
           retryCount == submission.retryCount + 1
       IN  /\ submission' =
                IF handled /\ outcome = "answered"
                THEN [submission EXCEPT !.pc = "done", !.inserted = inserted]
                ELSE [submission EXCEPT
                        !.pc = IF retryCount > MaxRetries THEN "failed" ELSE "attempt",
                        !.retryCount = retryCount, !.inserted = inserted]
           /\ form' = IF handled /\ outcome = "answered" THEN NULL ELSE form
    /\ UNCHANGED <<policies, tz, users, session, replay, inflight, rateVars, views, checked,
                   listing>>

\* what a submission of the page yields on the tables as they are: the status
\* persisted, the status returned to the page and the notes persisted
SubmissionOutcome(userId, amount, currency, date, category, description, fraudDetection, now, off) ==
    LET apiSubmission == ApiSubmission(userId, amount, currency, date, category, description,
                                       FormNotes(amount, category, policies, fraudDetection),
                                       now, off)
        row == RowToInsert(apiSubmission.body, expenses, policies, tz)
    IN  [status |-> row.status,
         returned |-> IF apiSubmission.isFraud THEN "flagged" ELSE row.status,
         notes |-> row.notes]

\* one expense decided twice on the same tables at the same clock: the same
\* fields, and the same receipt when one is scanned, go through the receipt
\* handler, handleSubmit, addExpense and the decision of the server, and
\* nothing is inserted; draw1 and draw2 are the outcomes of Math.random
\* in the two runs
Replay(userId, amount, currency, date, category, description, scanned, extraction, textLength, now, off) ==
    /\ ~BlockingErrors(amount, date, description, now)
    /\ \E draw1 \in BOOLEAN, draw2 \in BOOLEAN :
        LET fraudDetection(draw) ==
                IF scanned
                THEN Val(CombinedFraudResult(extraction, textLength, category, draw))
                ELSE NULL
        IN  replay' = <<SubmissionOutcome(userId, amount, currency, date, category,
                                          description, fraudDetection(draw1), now, off),
                        SubmissionOutcome(userId, amount, currency, date, category,
                                          description, fraudDetection(draw2), now, off)>>
    /\ UNCHANGED <<expenses, policies, tz, last, users, session, form, inflight, rateVars, views, checked, submission, listing>>

\* ExpenseDetails.handleStatusUpdate: `if (!expense || !isManager) return`,
\* with no message; a manager sends the expense with the new status
HandleStatusUpdate(id, newStatus) ==
    /\ session # NULL
    /\ id \in Ids(expenses)
    /\ IF ~IsManager
       THEN /\ last' = Response("handleStatusUpdate",
                                 [expenses[id] EXCEPT !.status = newStatus],
                                 0, id, NoStatus, NoStatus, FALSE, <<>>)
            /\ UNCHANGED <<expenses, policies, tz, beyondTables>>
       ELSE UpdateExpense(id, [expenses[id] EXCEPT !.status = newStatus])

\* ExpensePolicy.handleEdit then handleSave: handleEdit returns for whoever is
\* not a manager, with no message, and handleSave then has nothing to save
HandleEditAndSave(category, monthlyLimit, currency) ==
    /\ session # NULL
    /\ IF ~IsManager
       THEN /\ last' = Reply("handleEdit", 0)
            /\ UNCHANGED <<expenses, policies, tz, beyondTables>>
       ELSE HandleSave(category, monthlyLimit, currency)

\* api.updateExpense called from the browser of whoever is logged in: the
\* request is the same PUT, it names no sender
CallUpdateExpense(id, expense) ==
    /\ session # NULL
    /\ id \in Ids(expenses)
    /\ UpdateExpense(id, expense)

\* api.updatePolicy called from the browser of whoever is logged in
CallUpdatePolicy(category, policy) ==
    /\ session # NULL
    /\ UpdatePolicy(category, policy)

---------------------------------------------------------------------------
(* The pages of the manager.  A page (a tab of the browser) keeps the list *)
(* `expenses` of ExpenseContext as loaded when the manager logged in, and  *)
(* ExpenseDetails keeps the expense it loaded when it was opened.  The     *)
(* buttons are drawn from these copies and send them back with a new       *)
(* status.                                                                 *)

Pages == 1..MaxPages

NoView == [list |-> <<>>, detail |-> NULL]

UpdatedExpense_StatusAlone(expense, newStatus) == [NoBody EXCEPT !.status = newStatus]

\* { ...expense, status: newStatus }
UpdatedExpense(expense, newStatus) == [expense EXCEPT !.status = newStatus]

\* ExpenseContext.updateExpense: prevExpenses.map(e => e.id === expense.id ? expense : e)
LocalExpenses(list, id, expense) ==
    [i \in Ids(list) |-> IF i = id THEN expense ELSE list[i]]

\* ExpenseDetails: the buttons drawn for a manager
ShowsApprove(status) == status # "approved"

ShowsReject(status) == status # "rejected"

ShowsClearFlag(status) == status = "flagged"

\* PendingExpensesView: expenses.filter(e => e.status === 'pending')
PendingExpenses(list) == {i \in Ids(list) : list[i].status = "pending"}

\* FlaggedExpensesView: expenses.filter(e => e.status === 'flagged')
FlaggedExpenses(list) == {i \in Ids(list) : list[i].status = "flagged"}

\* PUT /api/expenses/:id from a client of the API that sends the row as it
\* read it, with another status
SetStatus(id, status) ==
    /\ id \in Ids(expenses)
    /\ UpdateExpense(id, UpdatedExpense(expenses[id], status))

\* ExpenseProvider.loadData for a manager: api.getAllExpenses
LoadData(page) ==
    /\ IsManager
    /\ views' = [views EXCEPT ![page] = [NoView EXCEPT !.list = expenses]]
    /\ UNCHANGED <<expenses, policies, tz, last, users, session, form, replay, inflight, rateVars, checked, submission, listing>>

\* ExpenseDetails.fetchExpenseData: getExpenseById(id)
OpenDetails(page, id) ==
    /\ IsManager
    /\ id \in Ids(expenses)
    /\ views' = [views EXCEPT ![page].detail = Val([id |-> id, expense |-> expenses[id]])]
    /\ UNCHANGED <<expenses, policies, tz, last, users, session, form, replay, inflight, rateVars, checked, submission, listing>>

\* a button of a page: updateExpense({ ...expense, status }) on the copy of
\* the page, which PUT /api/expenses/:id writes, and the local state after it
ClickStatus(page, op, id, expense, newStatus, onDetails) ==
    /\ IsManager
    /\ LET updatedExpense == UpdatedExpense(expense, newStatus)
       IN  /\ expenses' = UpdatedExpenses(expenses, id, updatedExpense)
           /\ last' = Response(op, updatedExpense, 200, id, NoStatus, NoStatus, FALSE, <<>>)
           /\ views' = [views EXCEPT ![page] =
                    [list |-> LocalExpenses(views[page].list, id, updatedExpense),
                     detail |-> IF onDetails
                                THEN Val([id |-> id, expense |-> updatedExpense])
                                ELSE NULL]]
    /\ UNCHANGED <<policies, tz, users, session, form, replay, inflight, rateVars, checked, submission, listing>>

\* ExpenseDetails: Approve Expense, Reject Expense, Clear Flag
DetailsStatusUpdate(page, newStatus) ==
    /\ views[page].detail # NULL
    /\ LET opened == views[page].detail[1]
       IN  /\ CASE newStatus = "approved" -> ShowsApprove(opened.expense.status)
                 [] newStatus = "rejected" -> ShowsReject(opened.expense.status)
                 [] newStatus = "pending" -> ShowsClearFlag(opened.expense.status)
                 [] OTHER -> FALSE
           /\ ClickStatus(page, "handleStatusUpdate", opened.id, opened.expense, newStatus, TRUE)

\* PendingExpensesView.handleApprove
PendingHandleApprove(page, id) ==
    /\ id \in PendingExpenses(views[page].list)
    /\ ClickStatus(page, "pendingHandleApprove", id, views[page].list[id], "approved", FALSE)

\* PendingExpensesView.handleReject
PendingHandleReject(page, id) ==
    /\ id \in PendingExpenses(views[page].list)
    /\ ClickStatus(page, "pendingHandleReject", id, views[page].list[id], "rejected", FALSE)

\* FlaggedExpensesView.handleApprove
FlaggedHandleApprove(page, id) ==
    /\ id \in FlaggedExpenses(views[page].list)
    /\ ClickStatus(page, "flaggedHandleApprove", id, views[page].list[id], "approved", FALSE)

\* FlaggedExpensesView.handleReject
FlaggedHandleReject(page, id) ==
    /\ id \in FlaggedExpenses(views[page].list)
    /\ ClickStatus(page, "flaggedHandleReject", id, views[page].list[id], "rejected", FALSE)

\* FlaggedExpensesView.handleClearFlag
HandleClearFlag(page, id) ==
    /\ id \in FlaggedExpenses(views[page].list)
    /\ ClickStatus(page, "handleClearFlag", id, views[page].list[id], "pending", FALSE)

---------------------------------------------------------------------------
(* The fraud heuristics applied to inputs: `checked` keeps the name of the *)
(* heuristic and the result it returned.                                   *)

NotChecked == [by |-> "", isFraud |-> FALSE, reasons |-> <<>>]

Checked(by, result) == [by |-> by, isFraud |-> result.isFraud, reasons |-> result.reasons]

Returns(by, result) ==
    /\ checked' = Checked(by, result)
    /\ UNCHANGED <<expenses, policies, tz, last, users, session, form, replay, inflight,
                   rateVars, views, submission, listing>>

\* detectFraud(expense) at the clock and in the zone of the browser
RunDetectFraud(amount, date, category, description, now, off) ==
    Returns("detectFraud",
            DetectFraud(Body("emp1", amount, "INR", date, category, description, <<>>, "pending"),
                        now, off))

\* detectFraudInReceipt(receiptText, amount, category)
RunDetectFraudInReceipt(textLength, amount, category, draw) ==
    Returns("detectFraudInReceipt", DetectFraudInReceipt(textLength, amount, category, draw))

\* extractInfoFromOcrText(text).fraudDetection
RunExtractInfoFromOcrText(amount, dateFound, vendorFound) ==
    Returns("extractInfoFromOcrText",
            ExtractInfoFromOcrText(amount, dateFound, vendorFound).fraudDetection)

---------------------------------------------------------------------------
(* Inputs *)

\* zone offsets: New York (EST), UTC, India
ZoneOffsets == {-5 * 60, 0, 5 * 60 + 30}

India == 5 * 60 + 30

\* the clock of the browser: noon UTC of Sat 2 Mar 2024
Clocks == {6 * MinutesPerDay + 720}

Taxi == <<"T","a","x","i">>

CashGift == <<"C","a","s","h"," ","g","i","f","t">>

\* a note the form attaches: 'Policy limit warning: ...'
FormNote == [kind |-> "form", limit |-> NULL, currency |-> "", total |-> NULL]

NoteInputs == {<<>>, <<FormNote>>}

LimitInputs == {NULL, Val(0), Val(1000)}

---------------------------------------------------------------------------
(* The specification of the decision: one employee, one currency.          *)
(* Thu 29 Feb, Fri 1 Mar and Tue 5 Mar 2024: two days of one week in two   *)
(* months, two days of one month in two weeks; 5 Mar is after the clock.   *)

Init ==
    /\ expenses = <<>>
    /\ policies = SeedPolicies(<<>>)
    /\ tz \in ZoneOffsets
    /\ last = NoRequest
    /\ users = DefaultUsers
    /\ session = NULL
    /\ form = NULL
    /\ replay = <<>>
    /\ inflight = [r \in Requests |-> IdleRequest]
    /\ rates = {}
    /\ txn = NULL
    /\ refresh = [p \in Refreshes |-> IdleRefresh]
    /\ conv = IdleConversion
    /\ views = [page \in Pages |-> NoView]
    /\ checked = NotChecked
    /\ submission = NoSubmission
    /\ listing = NoListing

Next ==
    \/ \E amount \in {0, 1000}, date \in {4, 5, 9}, description \in {Taxi, CashGift},
          now \in Clocks, off \in ZoneOffsets :
            AddExpense("emp1", amount, "INR", date, "Travelling", description, <<>>, now, off)
    \/ \E id \in 1..(Len(expenses) + 1), notes \in NoteInputs,
          status \in {NoStatus, "flagged", "archived"} :
            PostExpense(id, Body("emp1", 1000, "INR", 5, "Miscellaneous", Taxi, notes, status))
    \/ \E weeklyLimit \in LimitInputs, monthlyLimit \in LimitInputs :
            UpdatePolicy("Travelling", [weeklyLimit |-> weeklyLimit,
                                        monthlyLimit |-> monthlyLimit, currency |-> "INR"])
    \/ HandleSave("Travelling", 1, "INR")

Spec == Init /\ [][Next]_vars

---------------------------------------------------------------------------
(* The specification of the totals: two employees, two currencies, two     *)
(* categories with a policy, Fri 1 Mar and Tue 5 Mar 2024 (one month, two  *)
(* weeks), and updates that set the status of a row as the pages of the    *)
(* manager do (the row as read, with a new status) or to any other text.   *)

\* the body a page sends for row id: the row with another status
StatusUpdate(id, status) ==
    IF id \in Ids(expenses) THEN [expenses[id] EXCEPT !.status = status]
    ELSE [NoBody EXCEPT !.status = status]

NextTotals ==
    \/ \E userId \in {"emp1", "emp2"}, currency \in {"INR", "USD"}, date \in {5, 9},
          category \in {"Travelling", "Subscriptions"}, now \in Clocks, off \in ZoneOffsets :
            AddExpense(userId, 1000, currency, date, category, Taxi, <<>>, now, off)
    \/ \E id \in 1..MaxExpenses, status \in {"rejected", "flagged", "archived"} :
            UpdateExpense(id, StatusUpdate(id, status))

SpecTotals == Init /\ [][NextTotals]_vars

---------------------------------------------------------------------------
(* The specification of the windows: one employee, one category, and the   *)
(* days Sun 25 Feb, Thu 29 Feb, Fri 1 Mar, Sat 2 Mar, Sun 3 Mar 2024: the  *)
(* first and the last day of a week, the last day of a month and the first *)
(* day of the next.                                                        *)

NextWindows ==
    \E amount \in {300, 1000}, date \in {0, 4, 5, 6, 7}, now \in Clocks, off \in ZoneOffsets :
        AddExpense("emp1", amount, "INR", date, "Travelling", Taxi, <<>>, now, off)

SpecWindows == Init /\ [][NextWindows]_vars

---------------------------------------------------------------------------
(* The specification of the accounts: an employee registers, is approved   *)
(* or not, logs in; the pages and the API are used from the session of the *)
(* browser, and POST /api/expenses by whoever reaches the server.          *)

TaxiRide == <<"T","a","x","i"," ","r","i","d","e">>

\* what extractInfoFromOcrText makes of a receipt: all found, or no amount
Extractions ==
    {[amount |-> Val(1000), fraudDetection |-> [isFraud |-> FALSE, reasons |-> <<>>]],
     [amount |-> NULL,
      fraudDetection |-> [isFraud |-> TRUE,
                          reasons |-> <<"Could not extract amount from receipt">>]]}

\* the lengths of the text of a receipt: under and over 20 characters
TextLengths == {10, 40}

NextAccess ==
    \/ \E id \in {"admin", "emp1"} : CreateUser(id, "employee")
    \/ ApproveEmployee("emp1")
    \/ \E username \in {"admin", "emp1"}, passwordOk \in BOOLEAN : Login(username, passwordOk)
    \/ Logout
    \/ \E extraction \in Extractions, draw \in BOOLEAN :
            ScanReceipt(extraction, 40, "Travelling", draw)
    \/ \E amount \in {-500, 0, 1000}, description \in {Taxi, TaxiRide},
          now \in Clocks, off \in ZoneOffsets :
            HandleSubmit(amount, "INR", 5, "Travelling", description, now, off)
    \/ \E id \in 1..(Len(expenses) + 1), amount \in {-500, 0, 1000} :
            PostExpense(id, Body("emp1", amount, "INR", 5, "Travelling", TaxiRide, <<>>, NoStatus))
    \/ \E id \in 1..MaxExpenses : HandleStatusUpdate(id, "approved")
    \/ \E id \in 1..MaxExpenses : CallUpdateExpense(id, StatusUpdate(id, "approved"))
    \/ HandleEditAndSave("Travelling", 2000, "INR")
    \/ CallUpdatePolicy("Travelling", [weeklyLimit |-> Val(500), monthlyLimit |-> Val(2000),
                                        currency |-> "INR"])

SpecAccess == Init /\ [][NextAccess]_vars

---------------------------------------------------------------------------
(* The specification of the replays: submissions of 1500 INR build the     *)
(* tables, and an expense of 1500 INR, with a receipt or without, is       *)
(* decided twice on them from a browser in India.                          *)

NextReplay ==
    \/ \E date \in {5, 9}, now \in Clocks, off \in ZoneOffsets :
            AddExpense("emp1", 1500, "INR", date, "Travelling", TaxiRide, <<>>, now, off)
    \/ \E description \in {TaxiRide, CashGift}, scanned \in BOOLEAN,
          extraction \in Extractions, textLength \in TextLengths, now \in Clocks :
            Replay("emp1", 1500, "INR", 5, "Travelling", description,
                   scanned, extraction, textLength, now, India)

SpecReplay == Init /\ [][NextReplay]_vars

---------------------------------------------------------------------------
(* The specification of the interleavings: two requests POST /api/expenses *)
(* of one employee, of 1500 INR each against the weekly limit of 2500 INR  *)
(* of Travelling, dated Fri 1 Mar or Tue 5 Mar 2024, each statement of the *)
(* database succeeding or throwing.                                        *)

\* amounts to convert
Amounts == {-50, 0, 100}

\* the policies sent: a category of the six, or one that has no policy
NextPolicies ==
    \/ InitializeDatabase
    \/ \E category \in {"Travelling", "Subscriptions", "Miscellaneous"},
          weeklyLimit \in LimitInputs, monthlyLimit \in LimitInputs, currency \in {"INR", "USD"} :
            UpdatePolicy(category, [weeklyLimit |-> weeklyLimit,
                                    monthlyLimit |-> monthlyLimit, currency |-> currency])
    \/ \E category \in {"Travelling", "Miscellaneous"} : HandleSave(category, 2000, "INR")

SpecPolicies == Init /\ [][NextPolicies]_vars

\* expenses in INR and in USD against a policy in INR or in USD
NextCurrency ==
    \/ \E amount \in {100, 3000}, currency \in {"INR", "USD"}, now \in Clocks :
            AddExpense("emp1", amount, currency, 5, "Travelling", Taxi, <<>>, now, India)
    \/ \E monthlyLimit \in {NULL, Val(10000)}, currency \in {"INR", "USD"} :
            UpdatePolicy("Travelling", [weeklyLimit |-> Val(2500),
                                        monthlyLimit |-> monthlyLimit, currency |-> currency])

SpecCurrency == Init /\ [][NextCurrency]_vars

\* the manager on two pages, an employee who submits 2000 INR twice (the
\* second is over the weekly limit), and a client of the API that flags the
\* first expense (no page and no POST persists 'flagged'); the pages act on
\* the first expense
NextPages ==
    \/ Login("admin", TRUE)
    \/ \E now \in Clocks :
            AddExpense("emp1", 2000, "INR", 5, "Travelling", Taxi, <<>>, now, India)
    \/ SetStatus(1, "flagged")
    \/ \E page \in Pages : LoadData(page)
    \/ \E page \in Pages : OpenDetails(page, 1)
    \/ \E page \in Pages, newStatus \in Statuses : DetailsStatusUpdate(page, newStatus)
    \/ \E page \in Pages : PendingHandleApprove(page, 1)
    \/ \E page \in Pages : PendingHandleReject(page, 1)
    \/ \E page \in Pages : FlaggedHandleApprove(page, 1)
    \/ \E page \in Pages : FlaggedHandleReject(page, 1)
    \/ \E page \in Pages : HandleClearFlag(page, 1)

SpecPages == Init /\ [][NextPages]_vars

\* the amounts a receipt gives: none, 0, usual, over 1.5 times the typical
\* maximum of Travelling, over 50000
ReceiptAmounts == {NULL, Val(0), Val(1000), Val(16000), Val(60000)}

NextFraud ==
    \/ \E amount \in {1000, 40000}, date \in {5, 6, 9}, description \in {Taxi, CashGift, <<>>},
          category \in {"Travelling", "Miscellaneous"}, now \in Clocks, off \in ZoneOffsets :
            RunDetectFraud(amount, date, category, description, now, off)
    \/ \E textLength \in TextLengths, amount \in ReceiptAmounts, draw \in BOOLEAN :
            RunDetectFraudInReceipt(textLength, amount, "Travelling", draw)
    \/ \E amount \in ReceiptAmounts, dateFound \in BOOLEAN, vendorFound \in BOOLEAN :
            RunExtractInfoFromOcrText(amount, dateFound, vendorFound)
    \/ \E amount \in ReceiptAmounts, dateFound \in BOOLEAN, vendorFound \in BOOLEAN,
          textLength \in TextLengths, draw \in BOOLEAN :
            ScanReceipt(ExtractInfoFromOcrText(amount, dateFound, vendorFound),
                        textLength, "Travelling", draw)

SpecFraud == Init /\ [][NextFraud]_vars

\* the submissions of one employee, attempt by attempt
NextSubmit ==
    \/ CreateUser("emp1", "employee")
    \/ ApproveEmployee("emp1")
    \/ \E passwordOk \in BOOLEAN : Login("emp1", passwordOk)
    \/ \E amount \in {1000, 3000}, description \in {TaxiRide, CashGift}, now \in Clocks :
            BeginSubmit(amount, "INR", 5, "Travelling", description, now)
    \/ \E outcome \in Outcomes, now \in Clocks, off \in ZoneOffsets :
            SubmitAttempt(outcome, now, off)

SpecSubmit == Init /\ [][NextSubmit]_vars

\* the roles a request names: a manager, an employee, none
Roles == {"manager", "employee", ""}

\* expenses of two employees, approved or pending, the statuses the pages of
\* the manager or any caller of PUT /api/expenses/:id give them, and the
\* listings of a user
NextListing ==
    \/ \E userId \in {"emp1", "emp2"}, amount \in {1000, 3000}, now \in Clocks :
            AddExpense(userId, amount, "INR", 5, "Travelling", TaxiRide, <<>>, now, India)
    \/ \E id \in 1..MaxExpenses, status \in {"approved", "rejected", "flagged", "archived"} :
            UpdateExpense(id, StatusUpdate(id, status))
    \/ \E userId \in {"emp1", "emp2"}, role \in Roles : GetExpensesByUserId(userId, role)

SpecListing == Init /\ [][NextListing]_vars

NextRates ==
    \/ \E p \in Refreshes : StartTimer(p)
    \/ \E p \in Refreshes : PostConvertCurrency(p, 100, "USD", "INR")
    \/ \E amount \in Amounts, fromCurrency \in Currencies, toCurrency \in Currencies,
          p \in Refreshes, reachable \in BOOLEAN :
          ConvertCurrency(amount, fromCurrency, toCurrency, p, reachable)
    \/ ConvertReturn
    \/ \E p \in Refreshes : ConvertRead(p)
    \/ \E p \in Refreshes : ConvertReread(p)
    \/ \E p \in Refreshes : CountRates(p)
    \/ \E p \in Refreshes, ok \in BOOLEAN : FetchRates(p, ok)
    \/ \E p \in Refreshes : BeginTransaction(p)
    \/ \E p \in Refreshes : InsertRate(p)
    \/ \E p \in Refreshes : Commit(p)
    \/ \E p \in Refreshes : Rollback(p)

SpecRates == Init /\ [][NextRates]_vars

NextFlight ==
    \/ \E r \in Requests, date \in {5, 9}, category \in {"Travelling", "Miscellaneous"} :
            Receive(r, Body("emp1", 1500, "INR", date, category, TaxiRide, <<>>, NoStatus))
    \/ \E r \in Requests, throws \in BOOLEAN : ReadPolicy(r, throws)
    \/ \E r \in Requests, throws \in BOOLEAN : ReadWeekly(r, throws)
    \/ \E r \in Requests, throws \in BOOLEAN : ReadMonthly(r, throws)
    \/ \E r \in Requests, throws \in BOOLEAN : InsertExpense(r, throws)

SpecFlight == Init /\ [][NextFlight]_vars

---------------------------------------------------------------------------
(* What the claims speak of: the submission `last` describes, the row it   *)
(* inserted, the rows persisted before it, and the running totals counted  *)
(* row by row over the window the handler queries.                         *)

SubmitOps == {"addExpense", "postExpense"}

Submitted == last.op \in SubmitOps /\ last.code = 201

NewRow == expenses[last.id]

HasPolicy == last.request.category \in DOMAIN policies

PolicyRead == policies[last.request.category]

\* a prior row counts when it has the user, category and currency of the new
\* expense and its date text lies in [from, to]
Counts(row, new, from, to) ==
    /\ row.userId = new.userId
    /\ row.category = new.category
    /\ row.currency = new.currency
    /\ ~TextLess(DateText(row.date), from)
    /\ ~TextLess(to, DateText(row.date))

RECURSIVE PriorSum(_, _, _, _)
PriorSum(n, new, from, to) ==
    IF n = 0 THEN 0
    ELSE PriorSum(n - 1, new, from, to)
         + (IF Counts(expenses[n], new, from, to) THEN expenses[n].amount ELSE 0)

WeeklyTotalOfLast ==
    last.request.amount
    + PriorSum(last.id - 1, last.request,
               StartOfWeek(last.request.date, tz), EndOfWeek(last.request.date, tz))

MonthlyTotalOfLast ==
    last.request.amount
    + PriorSum(last.id - 1, last.request,
               StartOfMonth(last.request.date, tz), EndOfMonth(last.request.date, tz))

\* a limit is respected when it is unset or the total is at most the limit
Within(limit, total) == limit = NULL \/ total <= limit[1]

\* a configured limit, 0 included, that the total is over
Over(limit, total) == limit # NULL /\ total > limit[1]

LastNote(row) == row.notes[Len(row.notes)]

NamesLimit(row, period, limit, total) ==
    /\ row.notes # NULL
    /\ LastNote(row).kind = period
    /\ LastNote(row).limit = limit
    /\ LastNote(row).total = Val(total)

---------------------------------------------------------------------------
(* C1: an expense submitted through ExpenseContext.addExpense on which     *)
(* detectFraud returns at least one reason is persisted with status        *)
(* 'flagged', whatever the totals are.  The handler overwrites the status  *)
(* of the submission in both of its branches, so this fails.               *)
C1_FraudPersistedFlagged ==
    (last.op = "addExpense" /\ last.code = 201 /\ last.isFraud)
        => NewRow.status = "flagged"

C3_WeeklyExceededPendingWeeklyNote ==
    (Submitted /\ HasPolicy /\ Over(PolicyRead.weeklyLimit, WeeklyTotalOfLast))
        => (/\ NewRow.status = "pending"
            /\ NamesLimit(NewRow, "weekly", PolicyRead.weeklyLimit, WeeklyTotalOfLast))

\* what holds of the handler: the same for a weekly limit other than 0
C3_HoldsForNonZeroLimit ==
    (Submitted /\ HasPolicy /\ Over(PolicyRead.weeklyLimit, WeeklyTotalOfLast)
     /\ PolicyRead.weeklyLimit # Val(0))
        => (/\ NewRow.status = "pending"
            /\ NamesLimit(NewRow, "weekly", PolicyRead.weeklyLimit, WeeklyTotalOfLast))

(* C4: when the weekly total is within the weekly limit and the monthly    *)
(* total with the new expense exceeds the monthly limit, the expense is    *)
(* 'pending' and its note names the monthly limit and the monthly total.   *)
(* A monthly limit of 0 is never compared (see C6).                        *)
C4_MonthlyExceededPendingMonthlyNote ==
    (/\ Submitted /\ HasPolicy
     /\ Within(PolicyRead.weeklyLimit, WeeklyTotalOfLast)
     /\ Over(PolicyRead.monthlyLimit, MonthlyTotalOfLast))
        => (/\ NewRow.status = "pending"
            /\ NamesLimit(NewRow, "monthly", PolicyRead.monthlyLimit, MonthlyTotalOfLast))

\* what holds of the handler: the same for a monthly limit other than 0
C4_HoldsForNonZeroLimit ==
    (/\ Submitted /\ HasPolicy
     /\ Within(PolicyRead.weeklyLimit, WeeklyTotalOfLast)
     /\ Over(PolicyRead.monthlyLimit, MonthlyTotalOfLast)
     /\ PolicyRead.monthlyLimit # Val(0))
        => (/\ NewRow.status = "pending"
            /\ NamesLimit(NewRow, "monthly", PolicyRead.monthlyLimit, MonthlyTotalOfLast))

C6_CheckSkippedIffUnset ==
    (Submitted /\ HasPolicy)
        => (NewRow.status = "pending"
                <=> (\/ Over(PolicyRead.weeklyLimit, WeeklyTotalOfLast)
                     \/ Over(PolicyRead.monthlyLimit, MonthlyTotalOfLast)))

\* what holds of the handler: the same when neither limit is 0, and an unset
\* limit never causes 'pending'
C6_HoldsForNonZeroLimits ==
    (/\ Submitted /\ HasPolicy
     /\ PolicyRead.weeklyLimit # Val(0) /\ PolicyRead.monthlyLimit # Val(0))
        => (NewRow.status = "pending"
                <=> (\/ Over(PolicyRead.weeklyLimit, WeeklyTotalOfLast)
                     \/ Over(PolicyRead.monthlyLimit, MonthlyTotalOfLast)))

---------------------------------------------------------------------------
---------------------------------------------------------------------------
(* The calendar the specification speaks of: day 0 is a Sunday, a week is  *)
(* Sunday to Saturday, a month is a calendar month of 2024.                *)

SameWeek(d, e) == d \div 7 = e \div 7

SameMonth(d, e) == MonthOfDay(d) = MonthOfDay(e)

SameKey(row, new) ==
    row.userId = new.userId /\ row.category = new.category /\ row.currency = new.currency

FirstOrLastOfWeek(d) == d % 7 = 0 \/ d % 7 = 6

FirstOrLastOfMonth(d) == \E m \in 0..4 : d = MonthStart[m] \/ d = MonthStart[m + 1] - 1

RECURSIVE WeekSum(_, _, _)
\* the amounts of rows 1..n of the key and the week of `new`; only the rows
\* dated on a Sunday or a Saturday when `edges`
WeekSum(n, new, edges) ==
    IF n = 0 THEN 0
    ELSE WeekSum(n - 1, new, edges)
         + (IF /\ SameKey(expenses[n], new)
               /\ SameWeek(expenses[n].date, new.date)
               /\ (edges => FirstOrLastOfWeek(expenses[n].date))
            THEN expenses[n].amount ELSE 0)

RECURSIVE MonthSum(_, _, _)
\* the same for the month of `new`; only the rows dated on the first or the
\* last day of the month when `edges`
MonthSum(n, new, edges) ==
    IF n = 0 THEN 0
    ELSE MonthSum(n - 1, new, edges)
         + (IF /\ SameKey(expenses[n], new)
               /\ SameMonth(expenses[n].date, new.date)
               /\ (edges => FirstOrLastOfMonth(expenses[n].date))
            THEN expenses[n].amount ELSE 0)


(* C8: the bounds of the windows are inclusive: every persisted row dated  *)
(* on the Sunday or the Saturday of the week of the new expense is in its  *)
(* weekly total, and every row dated on the first or the last day of its   *)
(* month is in its monthly total.  (All amounts are positive here.)  With  *)
(* the server at UTC the row of the first day is left out.                 *)
C8_WindowBoundsInclusive ==
    (Submitted /\ HasPolicy)
        => (/\ last.totals[1] >= last.request.amount + WeekSum(last.id - 1, last.request, TRUE)
            /\ last.totals[2] >= last.request.amount + MonthSum(last.id - 1, last.request, TRUE))

\* what holds of the handler: the same with the server in the zone of India
C8_HoldsInIndia ==
    (Submitted /\ HasPolicy /\ tz = India)
        => (/\ last.totals[1] >= last.request.amount + WeekSum(last.id - 1, last.request, TRUE)
            /\ last.totals[2] >= last.request.amount + MonthSum(last.id - 1, last.request, TRUE))

(* C9: the weekly window is the Sunday-to-Saturday week of the date of the *)
(* new expense and the monthly window its calendar month: a prior row of   *)
(* the same user, category and currency is in the weekly total if and only *)
(* if it is dated in that week, and in the monthly total if and only if it *)
(* is dated in that month.  West of UTC the handler takes the week and the *)
(* month of the day before, and at UTC it leaves out the first day.        *)
C9_WindowsAreWeekAndMonthOfDate ==
    (Submitted /\ HasPolicy)
        => last.totals = <<last.request.amount + WeekSum(last.id - 1, last.request, FALSE),
                           last.request.amount + MonthSum(last.id - 1, last.request, FALSE)>>

\* what holds of the handler: the same with the server in the zone of India
C9_HoldsInIndia ==
    (Submitted /\ HasPolicy /\ tz = India)
        => last.totals = <<last.request.amount + WeekSum(last.id - 1, last.request, FALSE),
                           last.request.amount + MonthSum(last.id - 1, last.request, FALSE)>>

(* C10: after any sequence of submissions and updates the status of every  *)
(* persisted expense is one of pending, approved, rejected, flagged.  The  *)
(* update handler stores the status of the body as it is.                  *)
C10_StatusInVocabulary ==
    \A i \in Ids(expenses) : expenses[i].status \in Statuses

\* what holds of the handlers: a submission is inserted as pending or approved
C10_HoldsOfSubmissions ==
    Submitted => NewRow.status \in {"pending", "approved"}

---------------------------------------------------------------------------
\* a note 'Potential fraud detected: ...' among the notes of a row
HasFraudNote(row) == \E i \in 1..Len(row.notes) : row.notes[i].kind = "fraud"

\* the last note of a row names the weekly or the monthly limit of the policy
NamesALimit(row, policy) ==
    /\ row.notes # NULL
    /\ \/ LastNote(row).kind = "weekly" /\ LastNote(row).limit = policy.weeklyLimit
       \/ LastNote(row).kind = "monthly" /\ LastNote(row).limit = policy.monthlyLimit

(* C11: a submission that ends with a status other than 'approved' for a   *)
(* fraud reason or an exceeded limit has notes persisted: a note           *)
(* 'Potential fraud detected: ...' when it ends flagged, a note naming the *)
(* exceeded limit when it is pending for a limit.  addExpense answers      *)
(* 'flagged' on a fraud reason and writes no note, so this fails.          *)
C11_NotesSetWhenNotApproved ==
    Submitted
        => (/\ (last.isFraud /\ last.returned = "flagged") => HasFraudNote(NewRow)
            /\ (HasPolicy /\ NewRow.status = "pending") => NamesALimit(NewRow, PolicyRead))

\* what holds of the handler: a submission pending for a limit has the note
\* of that limit
C11_HoldsOfLimits ==
    (Submitted /\ HasPolicy /\ NewRow.status = "pending") => NamesALimit(NewRow, PolicyRead)

---------------------------------------------------------------------------
\* the operations kept for managers: the status of an expense, a policy
ManagerOps == {"updateExpense", "updatePolicy", "handleStatusUpdate", "handleEdit"}

IsEmployee == session # NULL /\ session[1].role = "employee"

\* an authorization error answered to the caller
AuthorizationError(code) == code \in {401, 403}

(* C12: a manager-only operation (the status of an expense, the edit of a  *)
(* policy) attempted from the session of an employee is rejected with an   *)
(* authorization error reported to the caller and changes neither the      *)
(* expenses nor the policies.  The handlers of the server check no role    *)
(* and apply the request; the pages return without a word.                 *)
C12_EmployeeRejectedFromManagerOps ==
    [][(IsEmployee /\ last' # last /\ last'.op \in ManagerOps)
            => (/\ AuthorizationError(last'.code)
                /\ expenses' = expenses
                /\ policies' = policies)]_vars

\* what holds of the pages: from the session of an employee they change nothing
C12_PagesChangeNothingForEmployee ==
    [][(IsEmployee /\ last' # last /\ last'.op \in {"handleStatusUpdate", "handleEdit"})
            => (expenses' = expenses /\ policies' = policies)]_vars

(* C13: no expense is persisted for an employee whose account was not      *)
(* active at the time of the submission.  POST /api/expenses reads no      *)
(* user: it stores the expense of an account that waits for approval, or   *)
(* of no account at all.                                                   *)
C13_NoExpenseOfInactiveEmployee ==
    Submitted
        => (/\ last.request.userId \in DOMAIN users
            /\ users[last.request.userId].isActive = 1)

\* what holds of the page: handleSubmit runs in a session, and an employee
\* gets a session only when active (no handler of the model deactivates)
C13_HoldsOfThePage ==
    (last.op = "addExpense" /\ last.code = 201)
        => (/\ last.request.userId \in DOMAIN users
            /\ users[last.request.userId].isActive = 1)

(* C14: every submission whose amount is 0 or negative is rejected before  *)
(* the policy evaluation runs, and no expense is persisted for it.  The    *)
(* server refuses a falsy amount only: a negative amount is evaluated and  *)
(* stored.                                                                 *)
C14_NonPositiveAmountRejected ==
    (last.op \in SubmitOps \cup {"handleSubmit"} /\ last.request.amount <= 0)
        => (/\ last.code # 201
            /\ last.totals = <<>>
            /\ \A i \in Ids(expenses) : expenses[i].amount > 0)

\* what holds: the page sends no amount <= 0, and the server refuses amount 0
C14_HoldsOfThePageAndOfZero ==
    (/\ last.op \in SubmitOps \cup {"handleSubmit"}
     /\ last.request.amount <= 0
     /\ last.op = "postExpense" => last.request.amount = 0)
        => (last.code # 201 /\ last.totals = <<>>)

---------------------------------------------------------------------------
\* the requests that have read both sums
Decided == {r \in Requests : Len(inflight[r].seen) = 2}

\* the sum a request must have read on the first n rows of the table
TotalOnRows(q, n, from, to) == q.expense.amount + PriorSum(n, q.expense, from, to)

(* C15: a submission is decided on the rows persisted when it read its     *)
(* sums, so two concurrent submissions of one user, category and currency  *)
(* can both read before either is inserted and both be approved although   *)
(* together they exceed the limit; a submission that reads after the       *)
(* INSERT of another (no interleaving) is decided on a total that includes *)
(* it.  Each total is the new amount plus the matching rows among the rows *)
(* seen, and a request is approved exactly when its own totals are within  *)
(* the limits it read.                                                     *)
C15_DecidedOnRowsSeen ==
    \A r \in Decided :
        LET q == inflight[r]
            date == q.expense.date
        IN  /\ q.weeklyTotal = TotalOnRows(q, q.seen[1], StartOfWeek(date, tz), EndOfWeek(date, tz))
            /\ q.monthlyTotal = TotalOnRows(q, q.seen[2], StartOfMonth(date, tz), EndOfMonth(date, tz))
            /\ q.row # 0 =>
                    (expenses[q.row].status = "approved"
                        <=> (/\ ~Over(q.policy[1].weeklyLimit, q.weeklyTotal)
                             /\ ~Over(q.policy[1].monthlyLimit, q.monthlyTotal)))
            /\ (q.row # 0 /\ q.seen = <<q.row - 1, q.row - 1>>) =>
                    q.weeklyTotal = TotalOnRows(q, q.row - 1, StartOfWeek(date, tz),
                                                EndOfWeek(date, tz))

\* both requests read their sums on the empty table, both are approved, and
\* the two rows of one week together exceed the weekly limit each respected
C15_Witness ==
    /\ \A r \in Requests :
            /\ inflight[r].code = 201
            /\ inflight[r].seen = <<0, 0>>
            /\ expenses[inflight[r].row].status = "approved"
            /\ inflight[r].weeklyTotal <= inflight[r].policy[1].weeklyLimit[1]
    /\ SameKey(expenses[1], expenses[2])
    /\ SameWeek(expenses[1].date, expenses[2].date)
    /\ expenses[1].amount + expenses[2].amount > policies[expenses[1].category].weeklyLimit[1]

(* C18: when the decision of a submission fails unexpectedly (a read of    *)
(* the database throws during the aggregation), the expense is not         *)
(* approved: it ends persisted with status 'pending'.  The catch of the    *)
(* handler answers 500 and inserts nothing.                                *)
C18_FailedDecisionEndsPending ==
    \A r \in Requests :
        inflight[r].failed \in {"policy", "weekly", "monthly"}
            => (/\ inflight[r].row # 0
                /\ expenses[inflight[r].row].status = "pending")

\* what holds of the handler: a request that failed inserted no row, approved
\* or not, and is answered 500
C18_HoldsNothingInserted ==
    \A r \in Requests :
        inflight[r].failed # "" => (inflight[r].row = 0 /\ inflight[r].code = 500)

---------------------------------------------------------------------------
(* C17: deciding the same expense twice against the same persisted         *)
(* expenses and policies at the same clock yields the same status and the  *)
(* same notes: no hidden counter, no random draw.  The receipt check draws *)
(* Math.random() < 0.05, and its reasons become the notes of the expense.  *)
C17_SameDecisionTwice ==
    replay # <<>> => replay[1] = replay[2]

\* what holds: the status persisted and the status returned are the same in
\* both runs
C17_HoldsOfStatus ==
    replay # <<>> => (/\ replay[1].status = replay[2].status
                      /\ replay[1].returned = replay[2].returned)


---------------------------------------------------------------------------
(* C16: racing refreshes of the day's rates *)

\* the pairs of currencies a refresh stores
RatePairs == {<<row.from, row.to>> : row \in {FallbackRates[i] : i \in 1..Len(FallbackRates)}}

\* one rate for every pair of the day
OneRatePerPair(rows) ==
    \A pair \in RatePairs : Cardinality(RateRows(rows, pair[1], pair[2])) = 1

\* no call is between two awaits
Quiet == \A p \in Refreshes : refresh[p].pc \in {"idle", "done"}

\* C16: in every interleaving of the refreshes of one day (started by the
\* daily timer and by /api/convert-currency), once all have ended, none has
\* ended with an error and the table holds exactly one committed rate for
\* every pair of currencies of the day.
C16_RacingRefreshesAreSafe ==
    (Quiet /\ \E p \in Refreshes : refresh[p].kind = "timer")
        => /\ \A p \in Refreshes : ~refresh[p].threw
           /\ OneRatePerPair(rates)
           /\ txn = NULL

\* what holds: a refresh that runs alone ends without error and leaves
\* one committed rate for every pair; and in every interleaving the table
\* never holds two rates for one pair.
C16_HoldsOfOneRefreshAndOfUniqueness ==
    /\ \A row \in rates : Cardinality(RateRows(rates, row.from, row.to)) = 1
    /\ (Quiet /\ refresh[1].kind = "timer" /\ refresh[2].pc = "idle")
          => /\ ~refresh[1].threw
             /\ OneRatePerPair(rates)
             /\ txn = NULL


---------------------------------------------------------------------------
(* C19 and C20: the converter of the pages *)

Converted == conv.pc = "done"

\* C19: a conversion between one currency and itself returns the amount
\* itself, whatever the currency and the amount, raises nothing, and sends
\* no request to the backend: neither /api/convert-currency nor
\* /api/exchange-rates is called and no call of the server is started for it.
C19_SameCurrencyReturnsAmount ==
    (conv.pc # "idle" /\ conv.from = conv.to)
        => /\ Converted
           /\ conv.result = <<conv.amount, 1>>
           /\ ~conv.raised
           /\ conv.calls = 0
           /\ conv.slot = 0

\* C19, witness: 100 GBP converted to GBP, while the table of the day is
\* still empty.
C19_Witness ==
    /\ Converted
    /\ conv.from = "GBP" /\ conv.to = "GBP" /\ conv.amount = 100
    /\ conv.result = <<100, 1>>
    /\ conv.calls = 0
    /\ rates = {}

\* the backend gave no rate: it was not reached, or answered another status
\* than 200; /api/exchange-rates gives the page no rates either
NoRateObtained ==
    /\ Converted
    /\ conv.from # conv.to
    /\ conv.calls = 2

\* C20: a conversion between two different currencies for which no rate
\* could be obtained (no rate cached, the backend refuses or is out of
\* reach, the refresh of the rates fails) returns the original amount
\* unchanged and raises no exception.
C20_NoRateReturnsAmount ==
    NoRateObtained => (~conv.raised /\ SameValue(conv.result, <<conv.amount, 1>>))

\* what holds: such a conversion raises nothing and returns the amount
\* converted through INR on the default rates of fetchCurrencyRates, which
\* is the original amount only when that is 0
C20_HoldsOnDefaultRates ==
    NoRateObtained
        => /\ ~conv.raised
           /\ conv.result = FallbackConversion(conv.amount, conv.from, conv.to)
           /\ SameValue(conv.result, <<conv.amount, 1>>) <=> conv.amount = 0


---------------------------------------------------------------------------
(* C21: one policy per category *)

---------------------------------------------------------------------------
(* C22: totals and limits in one currency *)

\* the rates the converter can apply from one currency to another: the rate
\* stored from the API, the fallback rate stored, the default rates of the
\* pages
ConverterRates(from, to) ==
    {ApiRates[i].rate : i \in {j \in 1..Len(ApiRates) : ApiRates[j].from = from /\ ApiRates[j].to = to}}
    \cup {FallbackRates[i].rate :
            i \in {j \in 1..Len(FallbackRates) : FallbackRates[j].from = from /\ FallbackRates[j].to = to}}
    \cup {FallbackConversion(1, from, to)}

\* a limit is respected by a total converted at a rate
WithinAtRate(limit, total, rate) == limit = NULL \/ total * rate[1] <= limit[1] * rate[2]

\* C22: when the currency of the expense differs from the currency of the
\* policy, the expense is approved exactly when its weekly and monthly
\* totals, converted into the currency of the policy at a rate of the
\* converter, respect the limits.
C22_TotalsComparedInPolicyCurrency ==
    (Submitted /\ HasPolicy /\ last.request.currency # PolicyRead.currency)
        => \E rate \in ConverterRates(last.request.currency, PolicyRead.currency) :
              (NewRow.status = "approved")
                  <=> (/\ WithinAtRate(PolicyRead.weeklyLimit, last.totals[1], rate)
                       /\ WithinAtRate(PolicyRead.monthlyLimit, last.totals[2], rate))

\* what holds: the totals are sums of amounts in the currency of the
\* expense, and the numbers are compared with the limits as they are
C22_HoldsOfNumbersAsTheyAre ==
    (Submitted /\ HasPolicy)
        => /\ last.totals = <<WeeklyTotalOfLast, MonthlyTotalOfLast>>
           /\ (NewRow.status = "approved")
                  <=> (/\ Within(PolicyRead.weeklyLimit, last.totals[1])
                       /\ Within(PolicyRead.monthlyLimit, last.totals[2]))


---------------------------------------------------------------------------
(* C23 and C24: the status transitions of the manager *)

\* the step is a click of page `page` on expense `id` that sets newStatus
Transition(page, id, newStatus) ==
    \/ /\ views[page].detail # NULL
       /\ views[page].detail[1].id = id
       /\ DetailsStatusUpdate(page, newStatus)
    \/ newStatus = "approved" /\ PendingHandleApprove(page, id)
    \/ newStatus = "rejected" /\ PendingHandleReject(page, id)
    \/ newStatus = "approved" /\ FlaggedHandleApprove(page, id)
    \/ newStatus = "rejected" /\ FlaggedHandleReject(page, id)
    \/ newStatus = "pending" /\ HandleClearFlag(page, id)

\* the table after the step differs from the table before it in the status
\* and the notes of row id at most
OnlyStatusOf(id) ==
    /\ Len(expenses') = Len(expenses)
    /\ \A i \in Ids(expenses) \ {id} : expenses'[i] = expenses[i]
    /\ expenses'[id] = [expenses[id] EXCEPT !.status = expenses'[id].status,
                                            !.notes = expenses'[id].notes]

\* C23: a status transition made by the manager from a page (ExpenseDetails,
\* PendingExpensesView, FlaggedExpensesView) sets the status it names on the
\* expense and leaves its user, amount, currency, date, category and
\* description as they were (the id of a row is its place in the table);
\* every other expense is unchanged and no expense is deleted.
C23_TransitionChangesStatusOnly ==
    [][\A page \in Pages, id \in 1..MaxExpenses, newStatus \in Statuses :
            Transition(page, id, newStatus)
                => (OnlyStatusOf(id) /\ expenses'[id].status = newStatus)]_vars

\* C23, witness: a page that still shows the first expense as flagged has
\* rejected it after another page approved it, with a second expense in the
\* table: the first has its amount, the second is as it was decided.
C23_Witness ==
    /\ last.op = "flaggedHandleReject"
    /\ Len(expenses) = 2
    /\ expenses[1].status = "rejected" /\ expenses[1].amount = 2000
    /\ expenses[2].status = "pending"
    /\ \E page \in Pages : views[page].detail # NULL
                            /\ views[page].detail[1].expense.status = "approved"


\* the step is a click on a button of ExpenseDetails
DetailsTransition(page, id, newStatus) ==
    /\ views[page].detail # NULL
    /\ views[page].detail[1].id = id
    /\ DetailsStatusUpdate(page, newStatus)

\* the status the page shows for the expense when the button is clicked
Shown(page, id, newStatus) ==
    IF DetailsTransition(page, id, newStatus)
    THEN views[page].detail[1].expense.status
    ELSE views[page].list[id].status

AllowedTransitions ==
    {<<"pending", "approved">>, <<"pending", "rejected">>,
     <<"flagged", "approved">>, <<"flagged", "rejected">>, <<"flagged", "pending">>,
     <<"approved", "rejected">>, <<"rejected", "approved">>}

\* C24 as stated: every action of the manager on a page that changes the
\* persisted status of an expense takes it through one of the transitions
\* pending to approved or rejected, flagged to approved, rejected or
\* pending, approved to rejected, rejected to approved; so none sets
\* 'flagged' and 'pending' is reached from 'flagged' only.
C24_PersistedTransitions ==
    [][\A page \in Pages, id \in 1..MaxExpenses, newStatus \in Statuses :
            (Transition(page, id, newStatus) /\ expenses'[id].status # expenses[id].status)
                => <<expenses[id].status, expenses'[id].status>> \in AllowedTransitions]_vars

\* what holds: every action of the manager on a page sets a status that
\* one of these transitions reaches from the status the page shows for the
\* expense, never 'flagged', and 'pending' only where the page shows
\* 'flagged'; the persisted status makes that transition when it is the
\* status the page shows
C24_TransitionsFromStatusShown ==
    [][\A page \in Pages, id \in 1..MaxExpenses, newStatus \in Statuses :
            Transition(page, id, newStatus)
                => /\ <<Shown(page, id, newStatus), newStatus>> \in AllowedTransitions
                   /\ expenses'[id].status = newStatus
                   /\ newStatus # "flagged"
                   /\ newStatus = "pending" => Shown(page, id, newStatus) = "flagged"
                   /\ Shown(page, id, newStatus) = expenses[id].status
                        => <<expenses[id].status, expenses'[id].status>> \in AllowedTransitions]_vars


---------------------------------------------------------------------------
(* C25: isFraud and the reasons *)

\* C25: the result of each fraud heuristic (detectFraud,
\* detectFraudInReceipt, the check of extractInfoFromOcrText) and the
\* combined result the page keeps for a scanned receipt have isFraud true
\* exactly when the list of reasons is not empty.
C25_FraudIffReasons ==
    /\ checked.isFraud <=> checked.reasons # <<>>
    /\ form # NULL => (form[1].isFraud <=> form[1].reasons # <<>>)

\* C25, witness: the receipt check has returned fraud with one reason for a
\* text that is too short, and the page keeps a combined result with the
\* reasons of both checks.
C25_Witness ==
    /\ checked.by = "detectFraudInReceipt"
    /\ checked.isFraud /\ Len(checked.reasons) = 1
    /\ form # NULL /\ form[1].isFraud /\ Len(form[1].reasons) >= 3

---------------------------------------------------------------------------
(* C26 *)

\* the step of a handleSubmit that persisted an expense while the receipt
\* check kept by the page said fraud
ScannedFraudSubmitted ==
    /\ form # NULL /\ form[1].isFraud
    /\ last'.op = "addExpense" /\ last'.code = 201
    /\ Len(expenses') = Len(expenses) + 1

\* C26: when the receipt heuristic or the OCR extraction check reported fraud
\* for the scanned receipt, the expense submitted from that form is persisted
\* with status 'flagged', whatever the policy decides
C26_ScannedFraudPersistedFlagged ==
    [][ScannedFraudSubmitted => expenses'[Len(expenses')].status = "flagged"]_vars

\* what holds of such a submission: the reasons of the receipt check are
\* persisted in the notes, and the status is the policy's decision
C26_ScannedFraudPersistedInNotes ==
    [][ScannedFraudSubmitted =>
            /\ expenses'[Len(expenses')].status \in {"approved", "pending"}
            /\ \E i \in DOMAIN expenses'[Len(expenses')].notes :
                    /\ expenses'[Len(expenses')].notes[i].kind = "fraud"
                    /\ expenses'[Len(expenses')].notes[i].reasons = form[1].reasons]_vars

---------------------------------------------------------------------------
(* C27: the fallback rates of the day *)

\* the fallback table as rows of the day
FallbackTable == {FallbackRates[i] : i \in 1..Len(FallbackRates)}

\* the rows committed: those of the table outside a transaction, those the
\* table held at BEGIN inside one
CommittedRates == IF txn = NULL THEN rates ELSE txn[1]

\* fetchAndStoreCurrencyRates of call p returns or throws in this step
RefreshEnds(p) ==
    /\ refresh[p].pc \in {"count", "begin", "insert", "commit", "rollback"}
    /\ refresh'[p].pc \in {"done", "reread"}

\* C27: a refresh whose fetch failed returns without error and with a rate of
\* the day stored, the fallback table when it counted no rate of the day; and
\* a rate stored for the day is never removed or replaced by a refresh
C27_FallbackStoredAndRatesKept ==
    [][/\ \A p \in Refreshes :
            (RefreshEnds(p) /\ refresh[p].fetchFailed)
                => /\ ~refresh'[p].threw
                   /\ rates' # {}
                   /\ refresh[p].pc # "count" => rates' = FallbackTable
        /\ CommittedRates \subseteq CommittedRates']_vars

\* what holds: a refresh that runs alone and whose fetch failed returns with
\* exactly the fallback table stored; and in every interleaving a rate
\* committed for the day is never removed or replaced
C27_HoldsOfOneRefreshAndOfCommittedRates ==
    [][/\ (RefreshEnds(1) /\ refresh[1].fetchFailed /\ refresh[2].pc = "idle")
                => /\ ~refresh'[1].threw
                   /\ rates' = FallbackTable
                   /\ txn' = NULL
        /\ CommittedRates \subseteq CommittedRates']_vars

---------------------------------------------------------------------------
(* C28: one submission with its retries *)

\* C28: one submission of the form, with its automatic retries (at most four
\* attempts), persists at most one expense, also when an attempt was persisted
\* and its response was lost
C28_OneSubmissionOneExpense ==
    /\ submission.retryCount <= MaxRetries + 1
    /\ Cardinality(submission.inserted) <= 1

\* what holds: a submission makes at most four attempts, persists at most one
\* expense per attempt, and exactly one when its first attempt is answered
C28_HoldsOfAttempts ==
    /\ submission.retryCount <= MaxRetries + 1
    /\ submission.pc = "attempt" => submission.retryCount <= MaxRetries
    /\ Cardinality(submission.inserted) <= submission.retryCount + 1
    /\ submission.inserted \subseteq Ids(expenses)
    /\ (submission.pc = "done" /\ submission.retryCount = 0)
            => Cardinality(submission.inserted) = 1

---------------------------------------------------------------------------
(* C29: the status addExpense returns against the status persisted *)

\* C29: after addExpense has completed, the status it returns to its caller
\* and keeps in the list of the browser (finalStatus) is the status the server
\* persisted for the expense
C29_ReturnedStatusIsPersisted ==
    (last.op = "addExpense" /\ last.code = 201)
        => /\ last.returned = NewRow.status
           /\ last.returned = last.status

\* what holds: they are the same when detectFraud gave no reason, and on a
\* reason 'flagged' is returned while the decision of the policy is persisted
C29_ReturnedIsPersistedWithoutFraud ==
    (last.op = "addExpense" /\ last.code = 201)
        => /\ ~last.isFraud => last.returned = NewRow.status
           /\ last.isFraud => (last.returned = "flagged"
                                /\ NewRow.status \in {"approved", "pending"})

---------------------------------------------------------------------------
(* C30: what an employee is listed *)

\* a step of GET /api/expenses/user/:userId for a role other than manager
ListedForEmployee ==
    \E userId \in {"emp1", "emp2"}, role \in Roles \ {"manager"} :
        GetExpensesByUserId(userId, role)

\* C30: the listing of a user's expenses for a role other than manager never
\* contains an expense persisted as 'flagged'; it contains exactly the
\* approved, rejected and pending expenses of that user
C30_EmployeeListingHidesFlagged ==
    [][ListedForEmployee =>
            /\ \A e \in listing'.expenses : expenses[e.id].status # "flagged"
            /\ listing'.expenses =
                    Listed(expenses, {id \in Ids(expenses) :
                            /\ expenses[id].userId = listing'.userId
                            /\ expenses[id].status \in {"approved", "rejected", "pending"}})]_vars

\* C30, witness: an employee was listed a row while another row of that user,
\* persisted as 'flagged', is left out
C30_Witness ==
    /\ listing.role = "employee" /\ listing.code = 200
    /\ listing.expenses # {}
    /\ listing.expenses = ExpensesOfUser(expenses, listing.userId, listing.role)
    /\ \E id \in Ids(expenses) :
            /\ expenses[id].userId = listing.userId
            /\ expenses[id].status = "flagged"
            /\ \A e \in listing.expenses : e.id # id

====
